---------------------------- MODULE Spec2Model ----------------------------
(***************************************************************************)
(* A model of terraform-provider-sambadns: the samba-tool client           *)
(* (internal/provider/samba_client.go) and the resource handlers           *)
(* (internal/provider/provider.go).                                        *)
(*                                                                         *)
(* Go strings are modelled as sequences of one-character strings, so that  *)
(* the string functions the code calls (Split, TrimSpace, HasPrefix,       *)
(* Index, Contains, ...) are computed and not assumed.  Go's 0-based       *)
(* indices are kept: s[:i] is SubSeq(s, 1, i), s[i:] is                    *)
(* SubSeq(s, i + 1, Len(s)).                                               *)
(***************************************************************************)
EXTENDS Integers, Sequences, FiniteSets, TLC

(***************************************************************************)
(* Part 1.  The Go string functions the code uses.                         *)
(***************************************************************************)

SetMin(S) == CHOOSE x \in S : \A y \in S : x <= y

SetMax(S) == CHOOSE x \in S : \A y \in S : x >= y

\* s[i:] of Go
From(s, i) == SubSeq(s, i + 1, Len(s))

\* s[:i] of Go
Upto(s, i) == SubSeq(s, 1, i)

\* strings.HasPrefix
HasPrefix(s, p) == Len(p) <= Len(s) /\ SubSeq(s, 1, Len(p)) = p

\* strings.HasSuffix
HasSuffix(s, p) == Len(p) <= Len(s) /\ SubSeq(s, Len(s) - Len(p) + 1, Len(s)) = p

\* strings.TrimPrefix
TrimPrefix(s, p) == IF HasPrefix(s, p) THEN From(s, Len(p)) ELSE s

\* strings.TrimSuffix
TrimSuffix(s, p) == IF HasSuffix(s, p) THEN Upto(s, Len(s) - Len(p)) ELSE s

\* strings.Index: the 0-based place of the first occurrence of sub, or -1
Index(s, sub) ==
    LET cand == { i \in 0..(Len(s) - Len(sub)) : SubSeq(s, i + 1, i + Len(sub)) = sub }
    IN  IF cand = {} THEN -1 ELSE SetMin(cand)

\* strings.Contains
Contains(s, sub) == Index(s, sub) >= 0

\* strings.Trim(s, cutset), cutset given as a set of characters
Trim(s, cutset) ==
    LET keep == { i \in 1..Len(s) : s[i] \notin cutset }
    IN  IF keep = {} THEN << >> ELSE SubSeq(s, SetMin(keep), SetMax(keep))

\* the white space of strings.TrimSpace (ASCII part)
Space == {" ", "\t", "\n", "\r"}

\* strings.TrimSpace
TrimSpace(s) == Trim(s, Space)

RECURSIVE Split(_, _)
\* strings.Split(s, sep), sep not empty
Split(s, sep) ==
    LET i == Index(s, sep)
    IN  IF i = -1 THEN << s >>
        ELSE << Upto(s, i) >> \o Split(From(s, i + Len(sep)), sep)

RECURSIVE Join(_, _)
\* strings.Join
Join(parts, sep) ==
    IF parts = << >> THEN << >>
    ELSE IF Len(parts) = 1 THEN parts[1]
    ELSE parts[1] \o sep \o Join(Tail(parts), sep)

LowerLetters == <<"a","b","c","d","e","f","g","h","i","j","k","l","m","n","o","p","q","r","s","t","u","v","w","x","y","z">>

UpperLetters == <<"A","B","C","D","E","F","G","H","I","J","K","L","M","N","O","P","Q","R","S","T","U","V","W","X","Y","Z">>

UpperChar(ch) ==
    IF \E i \in 1..Len(LowerLetters) : LowerLetters[i] = ch
    THEN UpperLetters[CHOOSE i \in 1..Len(LowerLetters) : LowerLetters[i] = ch]
    ELSE ch

\* strings.ToUpper
ToUpper(s) == [ i \in 1..Len(s) |-> UpperChar(s[i]) ]

DecDigits == <<"0","1","2","3","4","5","6","7","8","9">>

IsDigit(ch) == \E i \in 1..Len(DecDigits) : DecDigits[i] = ch

DigitVal(ch) == (CHOOSE i \in 1..Len(DecDigits) : DecDigits[i] = ch) - 1

\* the length of the longest run of decimal digits s starts with: \d* of regexp
DigitRun(s) ==
    LET stop == { i \in 1..Len(s) : ~IsDigit(s[i]) }
    IN  IF stop = {} THEN Len(s) ELSE SetMin(stop) - 1

RECURSIVE DecValue(_)
\* the number a string of decimal digits writes
DecValue(s) ==
    IF s = << >> THEN 0
    ELSE 10 * DecValue(Upto(s, Len(s) - 1)) + DigitVal(s[Len(s)])

RECURSIVE DecString(_)
\* strconv.Itoa / %d, n >= 0
DecString(n) ==
    IF n < 10 THEN << DecDigits[n + 1] >>
    ELSE DecString(n \div 10) \o << DecDigits[(n % 10) + 1] >>

(***************************************************************************)
(* Part 2.  The pure functions of the provider.                            *)
(***************************************************************************)

HexDigits == <<"0","1","2","3","4","5","6","7","8","9","a","b","c","d","e","f">>

LowerChar(ch) ==
    IF \E i \in 1..Len(UpperLetters) : UpperLetters[i] = ch
    THEN LowerLetters[CHOOSE i \in 1..Len(UpperLetters) : UpperLetters[i] = ch]
    ELSE ch

IsHex(ch) == \E i \in 1..Len(HexDigits) : HexDigits[i] = LowerChar(ch)

HexVal(ch) == (CHOOSE i \in 1..Len(HexDigits) : HexDigits[i] = LowerChar(ch)) - 1

RECURSIVE HexValue(_)
HexValue(s) ==
    IF s = << >> THEN 0
    ELSE 16 * HexValue(Upto(s, Len(s) - 1)) + HexVal(s[Len(s)])

\* one colon-separated field of an IPv6 literal: 1 to 4 hex digits
IsHexField(f) == Len(f) \in 1..4 /\ \A i \in 1..Len(f) : IsHex(f[i])

\* one field of a dotted quad: decimal, at most 255, no leading zero
IsDecField(f) ==
    /\ Len(f) \in 1..3
    /\ \A i \in 1..Len(f) : IsDigit(f[i])
    /\ (Len(f) > 1 => f[1] # "0")
    /\ DecValue(f) <= 255

IsIPv4(s) ==
    LET fs == Split(s, <<".">>)
    IN  Len(fs) = 4 /\ \A i \in 1..4 : IsDecField(fs[i])

\* the two 16-bit groups a dotted quad fills
IPv4Groups(s) ==
    LET fs == Split(s, <<".">>)
    IN  << 256 * DecValue(fs[1]) + DecValue(fs[2]), 256 * DecValue(fs[3]) + DecValue(fs[4]) >>

\* the fields of one side of "::" (none when the side is empty)
Fields(s) == IF s = << >> THEN << >> ELSE Split(s, <<":">>)

\* the fields are hex fields, but the last may be a dotted quad when lastV4
FieldsOk(fs, lastV4) ==
    \A i \in 1..Len(fs) :
        \/ IsHexField(fs[i])
        \/ lastV4 /\ i = Len(fs) /\ IsIPv4(fs[i])

RECURSIVE Groups(_)
\* the 16-bit groups a sequence of fields writes
Groups(fs) ==
    IF fs = << >> THEN << >>
    ELSE IF IsHexField(fs[1]) THEN << HexValue(fs[1]) >> \o Groups(Tail(fs))
    ELSE IPv4Groups(fs[1]) \o Groups(Tail(fs))

Zeros(n) == [ i \in 1..n |-> 0 ]

\* the IPv6 branch of net.ParseIP: the 8 groups of the address, or << >> when
\* the literal does not parse
ParseIPv6(s) ==
    LET e == Index(s, <<":",":">>)
    IN  IF e = -1
        THEN LET fs == Fields(s)
             IN  IF fs # << >> /\ FieldsOk(fs, TRUE) /\ Len(Groups(fs)) = 8
                 THEN Groups(fs) ELSE << >>
        ELSE LET hd == Fields(Upto(s, e))
                 tl == Fields(From(s, e + 2))
             IN  IF /\ FieldsOk(hd, FALSE)
                    /\ FieldsOk(tl, TRUE)
                    /\ Len(Groups(hd)) + Len(Groups(tl)) <= 7
                 THEN Groups(hd) \o Zeros(8 - Len(Groups(hd)) - Len(Groups(tl))) \o Groups(tl)
                 ELSE << >>

\* net.ParseIP: the 8 groups of the 16-byte form of the address (a dotted quad
\* is stored IPv4-mapped), or << >> (nil).  The first '.' or ':' of the
\* literal decides the family.
ParseIP(s) ==
    LET d == Index(s, <<".">>)
        c == Index(s, <<":">>)
    IN  IF d >= 0 /\ (c = -1 \/ d < c)
        THEN (IF IsIPv4(s) THEN Zeros(5) \o << 65535 >> \o IPv4Groups(s) ELSE << >>)
        ELSE IF c >= 0 THEN ParseIPv6(s)
        ELSE << >>

\* IP.To4() # nil: an IPv4 address, or an IPv4-mapped IPv6 address
IsTo4(ip) == (\A i \in 1..5 : ip[i] = 0) /\ ip[6] = 65535

\* %02x%02x of one 16-bit group
Hex4(g) ==
    << HexDigits[(g \div 4096) + 1], HexDigits[((g \div 256) % 16) + 1],
       HexDigits[((g \div 16) % 16) + 1], HexDigits[(g % 16) + 1] >>

\* a normalizeIPv6 that expands IPv4 addresses as well
normalizeIPv6AlsoIPv4(ip) ==
    LET parsed == ParseIP(ip)
    IN  IF parsed = << >> THEN ip
        ELSE Join([ i \in 1..8 |-> Hex4(parsed[i]) ], <<":">>)

normalizeIPv6(ip) ==
    LET parsed == ParseIP(ip)
    IN  IF parsed = << >> THEN ip
        ELSE IF IsTo4(parsed) THEN ip
        ELSE Join([ i \in 1..8 |-> Hex4(parsed[i]) ], <<":">>)

TypeAAAA == <<"A","A","A","A">>

TypeCNAME == <<"C","N","A","M","E">>

TypeMX == <<"M","X">>

TypeTXT == <<"T","X","T">>

TypeA == <<"A">>

TypePTR == <<"P","T","R">>

\* suppressValueDiff(k, old, new, d) with d.Get("type") = recordType
suppressValueDiff(recordType, old, new) ==
    LET t == ToUpper(recordType)
    IN  IF t = TypeAAAA THEN normalizeIPv6(old) = normalizeIPv6(new)
        ELSE IF t = TypeCNAME THEN TrimSuffix(old, <<".">>) = TrimSuffix(new, <<".">>)
        ELSE FALSE

formatTXTForDelete(value) ==
    LET parts == Split(value, <<",">>)
    IN  Join([ i \in 1..Len(parts) |->
                 <<"'">> \o Trim(TrimSpace(parts[i]), {"\""}) \o <<"'">> ],
             <<" ">>)

DefaultTTL == 3600

MaxInt64 == <<"9","2","2","3","3","7","2","0","3","6","8","5","4","7","7","5","8","0","7">>

\* s without its leading zeros
StripZeros(s) ==
    LET nz == { i \in 1..Len(s) : s[i] # "0" }
    IN  IF nz = {} THEN << >> ELSE From(s, SetMin(nz) - 1)

\* a < b for digit strings of one length
DigitsLess(a, b) ==
    \E i \in 1..Len(a) :
        /\ \A j \in 1..(i - 1) : a[j] = b[j]
        /\ DigitVal(a[i]) < DigitVal(b[i])

\* strconv.Atoi of a string of decimal digits succeeds: the number fits an int
AtoiOk(s) ==
    LET z == StripZeros(s)
    IN  Len(z) < Len(MaxInt64) \/ (Len(z) = Len(MaxInt64) /\ ~DigitsLess(MaxInt64, z))

\* regexp ttl=(\d+): the digits of the leftmost match in s, or << >> when
\* nothing matches
TTLMatch(s) ==
    LET key == <<"t","t","l","=">>
        at  == { i \in 0..(Len(s) - Len(key) - 1) :
                   /\ SubSeq(s, i + 1, i + Len(key)) = key
                   /\ IsDigit(s[i + Len(key) + 1]) }
    IN  IF at = {} THEN << >>
        ELSE LET rest == From(s, SetMin(at) + Len(key))
             IN  Upto(rest, DigitRun(rest))

\* regexp ^\((\d+)\): the digits of the match at the start of s, or << >>
PriorityMatch(s) ==
    IF Len(s) >= 3 /\ s[1] = "("
    THEN LET n == DigitRun(From(s, 1))
         IN  IF n >= 1 /\ Len(s) >= n + 2 /\ s[n + 2] = ")"
             THEN SubSeq(s, 2, n + 1) ELSE << >>
    ELSE << >>

ParseErrFormat == "unexpected output format"

ParseErrNotFound == "record type not found in output"

\* a value taken as ParsedValue takes it, but with the final dot of an MX
\* hostname kept
ParsedValueKeepDot(recordType, afterType, parenIdx) ==
    LET value     == TrimSpace(Upto(afterType, parenIdx))
        remaining == TrimSpace(From(afterType, parenIdx))
        priority  == PriorityMatch(remaining)
    IN  IF ToUpper(recordType) = TypeMX /\ priority # << >>
        THEN value \o <<" ">> \o priority
        ELSE value

\* the value parseQueryOutput takes from the text after the type prefix
ParsedValue(recordType, afterType, parenIdx) ==
    LET value     == TrimSpace(Upto(afterType, parenIdx))
        remaining == TrimSpace(From(afterType, parenIdx))
        priority  == PriorityMatch(remaining)
    IN  IF ToUpper(recordType) = TypeMX /\ priority # << >>
        THEN TrimSuffix(value, <<".">>) \o <<" ">> \o priority
        ELSE value

\* the TTL parseQueryOutput takes from the text after the type prefix
ParsedTTL(afterType) ==
    LET m == TTLMatch(afterType)
    IN  IF m # << >> /\ AtoiOk(m) THEN DecValue(m) ELSE DefaultTTL

\* a parser that, when the line has no "(", takes the rest of the line for
\* the value
parseQueryOutputGuessing(output, recordType) ==
    LET lines      == Split(output, <<"\n">>)
        typePrefix == ToUpper(recordType) \o <<":">>
        hits       == { i \in 1..Len(lines) : HasPrefix(TrimSpace(lines[i]), typePrefix) }
    IN  IF hits = {} THEN [err |-> ParseErrNotFound]
        ELSE LET line      == TrimSpace(lines[SetMin(hits)])
                 afterType == TrimSpace(TrimPrefix(line, typePrefix))
                 parenIdx  == Index(afterType, <<"(">>)
             IN  [err   |-> "nil",
                  Type  |-> ToUpper(recordType),
                  Value |-> IF parenIdx = -1 THEN afterType
                            ELSE ParsedValue(recordType, afterType, parenIdx),
                  TTL   |-> ParsedTTL(afterType)]

\* parseQueryOutput(output, server, zone, name, recordType): err is "nil" and
\* Type, Value, TTL are the record's, or err is the parse error and there is
\* no record
parseQueryOutput(output, recordType) ==
    LET lines      == Split(output, <<"\n">>)
        typePrefix == ToUpper(recordType) \o <<":">>
        hits       == { i \in 1..Len(lines) : HasPrefix(TrimSpace(lines[i]), typePrefix) }
    IN  IF hits = {} THEN [err |-> ParseErrNotFound]
        ELSE LET line      == TrimSpace(lines[SetMin(hits)])
                 afterType == TrimSpace(TrimPrefix(line, typePrefix))
                 parenIdx  == Index(afterType, <<"(">>)
             IN  IF parenIdx = -1 THEN [err |-> ParseErrFormat]
                 ELSE [err   |-> "nil",
                       Type  |-> ToUpper(recordType),
                       Value |-> ParsedValue(recordType, afterType, parenIdx),
                       TTL   |-> ParsedTTL(afterType)]

\* a buildID that writes the type as it was given
buildIDAsGiven(server, zone, name, recordType) ==
    server \o <<"/">> \o zone \o <<"/">> \o name \o <<"/">> \o recordType

\* buildID(server, zone, name, recordType)
buildID(server, zone, name, recordType) ==
    server \o <<"/">> \o zone \o <<"/">> \o name \o <<"/">> \o ToUpper(recordType)

\* strings.SplitN(s, sep, n) for n > 0: at most n parts, the last one the
\* unsplit rest
SplitN(s, sep, n) ==
    LET all == Split(s, sep)
    IN  IF Len(all) <= n THEN all
        ELSE SubSeq(all, 1, n - 1) \o << Join(SubSeq(all, n, Len(all)), sep) >>

\* the number of parts of a resource ID
IDParts == 4

\* parseID(id): the four components, or the error
parseID(id) ==
    LET parts == SplitN(id, <<"/">>, IDParts)
    IN  IF Len(parts) # IDParts
        THEN [err |-> "invalid ID format", server |-> << >>, zone |-> << >>,
              name |-> << >>, recordType |-> << >>]
        ELSE [err |-> "nil", server |-> parts[1], zone |-> parts[2],
              name |-> parts[3], recordType |-> parts[4]]

(***************************************************************************)
(* Part 3.  The external tool and the DNS server behind it.                *)
(*                                                                         *)
(* samba-tool is the only transport (runCommand).  The server holds at     *)
(* most one record for the key (Server, Zone, Name, Type) the model        *)
(* follows, as the data model of the core has it.  What the tool prints    *)
(* and accepts is taken from the formats the source documents: the query   *)
(* listing (parseQueryOutput's comment), "hostname priority" for MX, the   *)
(* two TXT encodings (formatTXTForDelete's comment), the FQDN with or      *)
(* without its dot and the expanded IPv6 form (suppressValueDiff's         *)
(* comment), and the failure texts CreateRecord, QueryRecord and           *)
(* DeleteRecord look for.                                                  *)
(***************************************************************************)

MarkerAlreadyExist == <<"a","l","r","e","a","d","y"," ","e","x","i","s","t">>

MarkerNameNotExist == <<"W","E","R","R","_","D","N","S","_","E","R","R","O","R","_","N","A","M","E","_","D","O","E","S","_","N","O","T","_","E","X","I","S","T">>

MarkerRecordNotExist == <<"W","E","R","R","_","D","N","S","_","E","R","R","O","R","_","R","E","C","O","R","D","_","D","O","E","S","_","N","O","T","_","E","X","I","S","T">>

MarkerNotExist == <<"d","o","e","s"," ","n","o","t"," ","e","x","i","s","t">>

\* what the tool writes to stderr when it fails, by kind of failure
ToolStderr(tag) ==
    CASE tag = "exists"   -> <<"E","R","R","O","R",":"," ","R","e","c","o","r","d"," ","a","l","r","e","a","d","y"," ","e","x","i","s","t",";"," ","r","e","c","o","r","d"," ","c","o","u","l","d"," ","n","o","t"," ","b","e"," ","a","d","d","e","d",".">>
      [] tag = "noname"   -> <<"E","R","R","O","R","(","r","u","n","t","i","m","e",")",":"," ","u","n","c","a","u","g","h","t"," ","e","x","c","e","p","t","i","o","n"," ","-"," ","(","9","7","1","4",","," ","'","W","E","R","R","_","D","N","S","_","E","R","R","O","R","_","N","A","M","E","_","D","O","E","S","_","N","O","T","_","E","X","I","S","T","'",")">>
      [] tag = "norecord" -> <<"E","R","R","O","R","(","r","u","n","t","i","m","e",")",":"," ","u","n","c","a","u","g","h","t"," ","e","x","c","e","p","t","i","o","n"," ","-"," ","(","9","7","0","1",","," ","'","W","E","R","R","_","D","N","S","_","E","R","R","O","R","_","R","E","C","O","R","D","_","D","O","E","S","_","N","O","T","_","E","X","I","S","T","'",")">>
      [] tag = "generic"  -> <<"E","R","R","O","R",":"," ","R","e","c","o","r","d"," ","d","o","e","s"," ","n","o","t"," ","e","x","i","s","t",";"," ","r","e","c","o","r","d"," ","c","o","u","l","d"," ","n","o","t"," ","b","e"," ","d","e","l","e","t","e","d",".">>
      [] tag = "usage"    -> <<"E","R","R","O","R","(","e","x","c","e","p","t","i","o","n",")",":"," ","u","n","c","a","u","g","h","t"," ","e","x","c","e","p","t","i","o","n"," ","-"," ","N","o"," ","c","l","o","s","i","n","g"," ","q","u","o","t","a","t","i","o","n">>
      [] tag = "logon"    -> <<"E","R","R","O","R",":"," ","N","T","_","S","T","A","T","U","S","_","L","O","G","O","N","_","F","A","I","L","U","R","E">>

\* the three texts that report an absent name or record
NotExistTags == {"noname", "norecord", "generic"}

\* err.Error() of the error runCommand returns when the tool fails
runCommandError(tag) ==
    <<"s","a","m","b","a","-","t","o","o","l"," ","e","r","r","o","r",":"," ">> \o <<"e","x","i","t"," ","s","t","a","t","u","s"," ","2","5","5">> \o <<","," ","s","t","d","e","r","r",":"," ">> \o ToolStderr(tag)

\* the test of CreateRecord for "the record is already there"
IsAlreadyExists(errText) == Contains(errText, MarkerAlreadyExist)

\* a test for "there is no such record" that knows the two WERR codes only
IsNotExistCodesOnly(errText) ==
    \/ Contains(errText, MarkerNameNotExist)
    \/ Contains(errText, MarkerRecordNotExist)

\* the test of QueryRecord and DeleteRecord for "there is no such record"
IsNotExist(errText) ==
    \/ Contains(errText, MarkerNameNotExist)
    \/ Contains(errText, MarkerRecordNotExist)
    \/ Contains(errText, MarkerNotExist)

FQDNTypes == {TypeCNAME, TypePTR}

RECURSIVE ShSplit(_, _, _, _)
\* the tool's reading of a TXT argument: words separated by spaces, a quoted
\* stretch ('...' or "...") kept as it is without its quotes.  q is the open
\* quote ("" for none), cur the word so far, inw whether a word is open.
\* An unclosed quote makes the argument unreadable: [ok |-> FALSE].
ShSplit(s, q, cur, inw) ==
    IF s = << >>
    THEN IF q # "" THEN [ok |-> FALSE, segs |-> << >>]
         ELSE [ok |-> TRUE, segs |-> IF inw THEN << cur >> ELSE << >>]
    ELSE LET ch == s[1]
             rest == Tail(s)
         IN  IF q # ""
             THEN IF ch = q THEN ShSplit(rest, "", cur, TRUE)
                  ELSE ShSplit(rest, q, Append(cur, ch), TRUE)
             ELSE IF ch = "'" \/ ch = "\"" THEN ShSplit(rest, ch, cur, TRUE)
             ELSE IF ch = " "
                  THEN LET r == ShSplit(rest, "", << >>, FALSE)
                       IN  IF inw /\ r.ok THEN [ok |-> TRUE, segs |-> << cur >> \o r.segs]
                           ELSE r
             ELSE ShSplit(rest, "", Append(cur, ch), TRUE)

\* the record data the tool reads from the value argument of add and delete:
\* ok and the data as a sequence of strings (one string; host and priority
\* for MX; the segments for TXT), or not ok when the tool rejects the argument
ServerParse(typ, value) ==
    IF typ = TypeTXT THEN ShSplit(value, "", << >>, FALSE)
    ELSE IF typ = TypeMX
    THEN LET ps == Split(value, <<" ">>)
         IN  IF Len(ps) = 2 /\ ps[1] # << >> /\ ps[2] # << >> /\ DigitRun(ps[2]) = Len(ps[2])
             THEN [ok |-> TRUE, segs |-> << TrimSuffix(ps[1], <<".">>), ps[2] >>]
             ELSE [ok |-> FALSE, segs |-> << >>]
    ELSE IF typ = TypeAAAA
    THEN LET ip == ParseIP(value)
         IN  IF ip = << >> THEN [ok |-> FALSE, segs |-> << >>]
             ELSE [ok |-> TRUE, segs |-> << Join([ i \in 1..8 |-> Hex4(ip[i]) ], <<":">>) >>]
    ELSE IF typ \in FQDNTypes THEN [ok |-> TRUE, segs |-> << TrimSuffix(value, <<".">>) >>]
    ELSE [ok |-> TRUE, segs |-> << value >>]

\* the value as the query listing prints it; dot: the server prints an FQDN
\* with its final dot
ServerRender(typ, data, dot) ==
    IF typ = TypeTXT
    THEN Join([ i \in 1..Len(data) |-> <<"\"">> \o data[i] \o <<"\"">> ], <<",">>)
    ELSE IF typ = TypeMX THEN data[1] \o <<".">> \o <<" ","(">> \o data[2] \o <<")">>
    ELSE IF typ \in FQDNTypes /\ dot THEN data[1] \o <<".">>
    ELSE data[1]

\* stdout of a successful "dns query"
QueryOutput(typ, data, ttl, dot) ==
    <<" "," ","N","a","m","e","=",","," ","R","e","c","o","r","d","s","=","1",","," ","C","h","i","l","d","r","e","n","=","0">> \o <<"\n">>
    \o <<" "," "," "," ">> \o typ \o <<":"," ">> \o ServerRender(typ, data, dot)
    \o <<" ","(","f","l","a","g","s","=","f","0",","," ","s","e","r","i","a","l","=","1",","," ","t","t","l","=">> \o DecString(ttl) \o <<")">> \o <<"\n">>

\* stdout of a "dns query" whose listing is not of the expected shape: no
\* line for the type, or a line for the type with no parenthesis
GarbledOutput(typ, shape) ==
    IF shape = "noline" THEN <<" "," ","N","a","m","e","=",","," ","R","e","c","o","r","d","s","=","0",","," ","C","h","i","l","d","r","e","n","=","1">> \o <<"\n">>
    ELSE <<" "," ","N","a","m","e","=",","," ","R","e","c","o","r","d","s","=","1",","," ","C","h","i","l","d","r","e","n","=","0">> \o <<"\n">>
         \o <<" "," "," "," ">> \o typ \o <<":"," ">> \o <<"u","n","k","n","o","w","n">> \o <<"\n">>

GarbledShapes == {"noline", "noparen"}

\* the server's record for the key: none, or data and TTL
NoRecord == [held |-> FALSE, data |-> << >>, ttl |-> 0]

Held(data, ttl) == [held |-> TRUE, data |-> data, ttl |-> ttl]

\* the TTL the zone gives a record added without one
ZoneTTL == 3600

Failure(s, tag) == [srv |-> s, ok |-> FALSE, tag |-> tag, out |-> << >>]

Success(s, out) == [srv |-> s, ok |-> TRUE, tag |-> "ok", out |-> out]

\* the outcomes of "samba-tool dns add ... typ value" on server state s
ToolAdd(s, typ, value) ==
    LET p == ServerParse(typ, value)
    IN  { Failure(s, "logon") }
        \cup (IF ~p.ok THEN { Failure(s, "usage") }
              ELSE IF s.held THEN { Failure(s, "exists") }
              ELSE { Success(Held(p.segs, ZoneTTL), << >>) })

\* the outcomes of "samba-tool dns query ... typ" on server state s; absent
\* is the text by which this server reports an absent name or record
ToolQuery(s, typ, dot, absent) ==
    { Failure(s, "logon") }
    \cup (IF ~s.held THEN { Failure(s, absent) }
          ELSE { Success(s, QueryOutput(typ, s.data, s.ttl, dot)) }
               \cup { [Success(s, GarbledOutput(typ, sh)) EXCEPT !.tag = sh]
                      : sh \in GarbledShapes })

\* the outcomes of "samba-tool dns delete ... typ value" on server state s.
\* A value that is not the held record's is answered as an absent record
\* (the name exists, so never with the text for an absent name).
ToolDelete(s, typ, value, absent) ==
    LET p == ServerParse(typ, value)
    IN  { Failure(s, "logon") }
        \cup (IF ~p.ok THEN { Failure(s, "usage") }
              ELSE IF ~s.held THEN { Failure(s, absent) }
              ELSE IF p.segs = s.data THEN { Success(NoRecord, << >>) }
              ELSE { Failure(s, IF absent = "noname" THEN "norecord" ELSE absent) })

(***************************************************************************)
(* Part 4.  The client: CreateRecord, QueryRecord, DeleteRecord,           *)
(* UpdateRecord, and the resource handlers that chain them.                *)
(***************************************************************************)

NilErr == [kind |-> "nil", tag |-> "", wrap |-> ""]

\* the error runCommand returned: the tool failed with the text of tag
ToolErr(tag) == [kind |-> "tool", tag |-> tag, wrap |-> ""]

\* the error parseQueryOutput returned
ParseErr(what) == [kind |-> "parse", tag |-> what, wrap |-> ""]

\* fmt.Errorf("record already exists with different value")
ConflictErr == [kind |-> "conflict", tag |-> "", wrap |-> ""]

\* fmt.Errorf("<context>: %w", err)
Wrap(context, err) == [err EXCEPT !.wrap = context]

NoRec == [present |-> FALSE, Value |-> << >>, TTL |-> 0]

\* NewSambaClient
NewSambaClient(username, password) == [Username |-> username, Password |-> password]

\* authArgs: the flag and the credential string
authArgs(c) == << <<"-","U">>, c.Username \o <<"%">> \o c.Password >>

\* an invocation that carries the credential string without its flag
runCommandArgsNoFlag(c, args) == Append(args, authArgs(c)[2])

\* runCommand: the arguments samba-tool is started with
runCommandArgs(c, args) == args \o authArgs(c)

\* the arguments CreateRecord, QueryRecord and DeleteRecord hand to runCommand
CreateArgs(server, zone, name, type, value) ==
    << <<"d","n","s">>, <<"a","d","d">>, server, zone, name, type, value >>

QueryArgs(server, zone, name, recordType) ==
    << <<"d","n","s">>, <<"q","u","e","r","y">>, server, zone, name, recordType >>

DeleteArgs(server, zone, name, type, value) ==
    << <<"d","n","s">>, <<"d","e","l","e","t","e">>, server, zone, name, type, value >>

\* QueryRecord, given the outcome o of its "dns query" invocation: the
\* record (present or not) and the error
QueryRecord(o, recordType) ==
    IF ~o.ok
    THEN IF IsNotExist(runCommandError(o.tag)) THEN [err |-> NilErr, rec |-> NoRec]
         ELSE [err |-> ToolErr(o.tag), rec |-> NoRec]
    ELSE LET p == parseQueryOutput(o.out, recordType)
         IN  IF p.err # "nil" THEN [err |-> ParseErr(p.err), rec |-> NoRec]
             ELSE [err |-> NilErr,
                   rec |-> [present |-> TRUE, Value |-> p.Value, TTL |-> p.TTL]]

\* CreateRecord after its "dns add" invocation ended with outcome o: "nil",
\* "requery" (the failure says the record is already there) or the error
CreateAfterAdd(o) ==
    IF o.ok THEN "nil"
    ELSE IF IsAlreadyExists(runCommandError(o.tag)) THEN "requery"
    ELSE "error"

\* a CreateRecord that takes any record the re-query found for its own
CreateAfterRequeryAnyValue(q, value) ==
    IF q.err = NilErr /\ q.rec.present THEN NilErr
    ELSE ConflictErr

\* CreateRecord after the re-query returned q, value being the requested one
CreateAfterRequery(q, value) ==
    IF q.err = NilErr /\ q.rec.present /\ q.rec.Value = value THEN NilErr
    ELSE ConflictErr

\* a delete that sends the canonical form of a name
DeleteValueCanonical(recordType, value) ==
    IF ToUpper(recordType) = TypeTXT /\ Contains(value, <<",">>)
    THEN formatTXTForDelete(value)
    ELSE TrimSuffix(value, <<".">>)

\* the value argument DeleteRecord hands to "dns delete"
DeleteValue(recordType, value) ==
    IF ToUpper(recordType) = TypeTXT /\ Contains(value, <<",">>)
    THEN formatTXTForDelete(value)
    ELSE value

\* a DeleteRecord that returns every failure of its invocation
DeleteResultStrict(o) ==
    IF o.ok THEN NilErr
    ELSE ToolErr(o.tag)

\* DeleteRecord after its "dns delete" invocation ended with outcome o
DeleteResult(o) ==
    IF o.ok THEN NilErr
    ELSE IF IsNotExist(runCommandError(o.tag)) THEN NilErr
    ELSE ToolErr(o.tag)

(***************************************************************************)
(* Part 5.  The state machine.                                             *)
(*                                                                         *)
(* One key (Server, Zone, Name, typ) is followed.  A client runs one       *)
(* operation at a time; every invocation of the tool is one step, taken    *)
(* together with the code that runs up to the next invocation or to the    *)
(* return, so that the steps of two clients interleave exactly where two   *)
(* processes can.  Spec runs one client and remembers the operation it     *)
(* completed before the current one; SpecConc runs two clients, either of  *)
(* which may stop between two invocations.                                 *)
(***************************************************************************)

VARIABLES
    typ,    \* the record type of the key
    dot,    \* the server prints an FQDN with its final dot
    absent, \* the text by which the server reports an absent name or record
    srv,    \* the server's record for the key
    cl,     \* cl[c]: the operation client c runs and where it stands
    prev,   \* prev[c]: the operation c completed before the current one
    res,    \* the provider's configuration and the state of its one resource
    call    \* a function of the provider, its arguments and what it returned

vars == << typ, dot, absent, srv, cl, prev, res, call >>

Clients == {1, 2}

Types == { TypeA, TypeAAAA, TypeCNAME, TypePTR, TypeMX, TypeTXT }

\* the values the callers ask for, by type
Values(t) ==
    IF t = TypeA THEN { <<"1",".","2",".","3",".","4">>, <<"1",".","2",".","3",".","5">> }
    ELSE IF t = TypeAAAA THEN { <<":",":","1">>, <<"0",":","0",":","0",":","0",":","0",":","0",":","0",":","1">>, <<":",":","2">> }
    ELSE IF t = TypeCNAME THEN { <<"t",".","x">>, <<"t",".","x",".">>, <<"u",".","x">> }
    ELSE IF t = TypePTR THEN { <<"p",".","x">>, <<"p",".","x",".">> }
    ELSE IF t = TypeMX THEN { <<"m",".","x"," ","1","0">>, <<"m",".","x"," ","2","0">> }
    ELSE { <<"\"","a","\"">>, <<"\"","a","(","b","\"">>, <<"'","a","'"," ","'","b","'">>, <<"\"","a",",","b","\"">> }

\* the records the server may hold before any client runs
InitData(t) == { ServerParse(t, v).segs : v \in Values(t) }

\* the TTL of the records the server holds before any client runs
InitTTL == 900

Ops == { "Create", "Query", "Delete", "Update", "ResUpdate", "ResDelete" }

\* the failures of the transport and the listings of an unexpected shape
FaultTags == { "logon", "noline", "noparen" }

Idle ==
    [ pc |-> "idle", op |-> "none", phase |-> "", old |-> << >>, new |-> << >>,
      log |-> << >>, err |-> NilErr, rec |-> NoRec, foreign |-> FALSE ]

NoPrev == [ op |-> "none", val |-> << >>, removed |-> FALSE ]

\* the provider before configure is called: no client, and a resource and a
\* data source with nothing set
NoRes ==
    [ configured |-> FALSE, client |-> FALSE, given |-> << >>,
      username |-> << >>, password |-> << >>, cfgerr |-> "",
      cfgType |-> << >>, cfgValue |-> << >>,
      id |-> << >>, type |-> << >>, value |-> << >>, ttl |-> 0, old |-> << >>,
      dsid |-> << >>, dsvalue |-> << >>, dsttl |-> 0,
      op |-> "none", pc |-> "idle", qtype |-> << >>, log |-> << >>, err |-> NilErr ]

\* no function is applied
NoCall == [ fn |-> "none", args |-> << >>, src |-> << >>, ret |-> << >>, done |-> FALSE ]

\* no invocation of the operation failed in transport or was garbled, and no
\* other client changed the server while it ran
Clean(f) ==
    /\ ~f.foreign
    /\ \A i \in 1..Len(f.log) : f.log[i].tag \notin FaultTags

\* what is remembered of a completed operation: the operation, the value it
\* was about and whether its delete removed a record, when it returned no
\* error and ran clean
Summary(f) ==
    IF f.pc = "done" /\ f.err = NilErr /\ Clean(f)
    THEN [ op |-> f.op, val |-> IF f.op \in {"Delete", "ResDelete"} THEN f.old ELSE f.new,
           removed |-> \E i \in 1..Len(f.log) : f.log[i].cmd = "delete" /\ f.log[i].tag = "ok" ]
    ELSE NoPrev

Done(f, err, rec) == [ f EXCEPT !.pc = "done", !.err = err, !.rec = rec ]

WrapIf(context, err) == IF err = NilErr THEN NilErr ELSE Wrap(context, err)

\* CreateRecord returned err: what its caller does next
AfterCreate(f, err) ==
    IF f.op = "Create" THEN Done(f, err, NoRec)
    ELSE IF f.op = "Update" THEN Done(f, WrapIf("failed to create new record", err), NoRec)
    ELSE \* resourceRecordUpdate: ends with resourceRecordRead
         IF err # NilErr THEN Done(f, Wrap("failed to create new record", err), NoRec)
         ELSE [ f EXCEPT !.pc = "query", !.phase = "read" ]

\* an update that goes on to its add whatever its delete returned
AfterDeleteThenAdd(f, err) ==
    IF f.op = "Delete" THEN Done(f, err, NoRec)
    ELSE IF f.op = "ResDelete" THEN Done(f, WrapIf("failed to delete record", err), NoRec)
    ELSE [ f EXCEPT !.pc = "add" ]

\* DeleteRecord returned err: what its caller does next
AfterDelete(f, err) ==
    IF f.op = "Delete" THEN Done(f, err, NoRec)
    ELSE IF f.op = "ResDelete" THEN Done(f, WrapIf("failed to delete record", err), NoRec)
    ELSE \* UpdateRecord, resourceRecordUpdate
         IF err # NilErr THEN Done(f, Wrap("failed to delete old record", err), NoRec)
         ELSE [ f EXCEPT !.pc = "add" ]

\* QueryRecord returned q: what its caller does next
AfterQuery(f, q) ==
    IF f.op = "Query" THEN Done(f, q.err, q.rec)
    ELSE IF f.op = "ResDelete"
    THEN IF q.err # NilErr THEN Done(f, Wrap("failed to query record for deletion", q.err), NoRec)
         ELSE IF ~q.rec.present THEN Done(f, NilErr, NoRec)
         ELSE [ f EXCEPT !.pc = "delete", !.old = q.rec.Value ]
    ELSE IF f.phase = "current"
    THEN IF q.err # NilErr THEN Done(f, Wrap("failed to query record for update", q.err), NoRec)
         ELSE IF ~q.rec.present THEN [ f EXCEPT !.pc = "add" ]
         ELSE [ f EXCEPT !.pc = "delete", !.old = q.rec.Value ]
    ELSE \* resourceRecordRead at the end of resourceRecordUpdate
         Done(f, WrapIf("failed to query record", q.err), q.rec)

\* the frame of an operation that starts
Begin(o, old, new) ==
    [ Idle EXCEPT
        !.pc = IF o = "Create" THEN "add"
               ELSE IF o \in {"Delete", "Update"} THEN "delete"
               ELSE "query",
        !.op = o,
        !.phase = IF o = "ResUpdate" THEN "current" ELSE "",
        !.old = old,
        !.new = new ]

\* the operations a caller can start: Create(new), Query, Delete(old),
\* Update(old, new), the resource's update to new and its delete
Calls ==
    { Begin("Create", << >>, new) : new \in Values(typ) }
    \cup { Begin("Query", << >>, << >>), Begin("ResDelete", << >>, << >>) }
    \cup { Begin("Delete", old, << >>) : old \in Values(typ) }
    \cup { Begin("Update", a[1], a[2]) : a \in Values(typ) \X Values(typ) }
    \cup { Begin("ResUpdate", << >>, new) : new \in Values(typ) }

\* client c moves to frame g by an invocation with outcome o; the clients
\* whose server changed under them see it as foreign
Step(c, g, o) ==
    /\ srv' = o.srv
    /\ cl' = [ d \in Clients |->
                 IF d = c THEN g
                 ELSE IF o.srv # srv /\ cl[d].pc # "idle" THEN [ cl[d] EXCEPT !.foreign = TRUE ]
                 ELSE cl[d] ]
    /\ UNCHANGED << typ, dot, absent, prev, res, call >>

\* the log of an operation: its invocations, each with the value argument it
\* carried (none for a query), the kind of outcome and whether the server
\* held a record for the key when it was issued
Logged(f, cmd, value, o) ==
    [ f EXCEPT !.log = Append(@, [cmd |-> cmd, value |-> value, tag |-> o.tag,
                                  held |-> srv.held]) ]

Init ==
    /\ typ \in Types
    /\ dot \in (IF typ \in FQDNTypes THEN BOOLEAN ELSE {TRUE})
    /\ absent \in NotExistTags
    /\ srv \in {NoRecord} \cup { Held(d, InitTTL) : d \in InitData(typ) }
    /\ cl = [ c \in Clients |-> Idle ]
    /\ prev = [ c \in Clients |-> NoPrev ]
    /\ res = NoRes
    /\ call = NoCall

\* a caller starts an operation; what the one before it did is remembered
Start(c) ==
    /\ cl[c].pc \in {"idle", "done", "crashed"}
    /\ \E f \in Calls : cl' = [ cl EXCEPT ![c] = f ]
    /\ prev' = [ prev EXCEPT ![c] = Summary(cl[c]) ]
    /\ UNCHANGED << typ, dot, absent, srv, res, call >>

\* two clients on one key: client 1 runs one update, client 2 queries,
\* creates and deletes, one operation after the other
ConcCalls(c) ==
    IF c = 1
    THEN { Begin("Update", a[1], a[2]) : a \in Values(typ) \X Values(typ) }
         \cup { Begin("ResUpdate", << >>, new) : new \in Values(typ) }
    ELSE { Begin("Create", << >>, new) : new \in Values(typ) }
         \cup { Begin("Query", << >>, << >>) }

StartConc(c) ==
    /\ cl[c].pc \in (IF c = 1 THEN {"idle"} ELSE {"idle", "done"})
    /\ \E f \in ConcCalls(c) : cl' = [ cl EXCEPT ![c] = f ]
    /\ UNCHANGED << typ, dot, absent, srv, prev, res, call >>

\* CreateRecord: the "dns add" invocation
Add(c) ==
    /\ cl[c].pc = "add"
    /\ \E o \in ToolAdd(srv, typ, cl[c].new) :
           LET g == Logged(cl[c], "add", cl[c].new, o)
               r == CreateAfterAdd(o)
           IN  Step(c, IF r = "requery" THEN [ g EXCEPT !.pc = "requery" ]
                       ELSE AfterCreate(g, IF r = "nil" THEN NilErr ELSE ToolErr(o.tag)), o)

\* CreateRecord: the re-query after "already exist"
Requery(c) ==
    /\ cl[c].pc = "requery"
    /\ \E o \in ToolQuery(srv, typ, dot, absent) :
           LET g == Logged(cl[c], "query", << >>, o)
           IN  Step(c, AfterCreate(g, CreateAfterRequery(QueryRecord(o, typ), cl[c].new)), o)

\* QueryRecord
Query(c) ==
    /\ cl[c].pc = "query"
    /\ \E o \in ToolQuery(srv, typ, dot, absent) :
           Step(c, AfterQuery(Logged(cl[c], "query", << >>, o), QueryRecord(o, typ)), o)

\* DeleteRecord
Delete(c) ==
    /\ cl[c].pc = "delete"
    /\ LET value == DeleteValue(typ, cl[c].old)
       IN  \E o \in ToolDelete(srv, typ, value, absent) :
               Step(c, AfterDelete(Logged(cl[c], "delete", value, o), DeleteResult(o)), o)

\* the process of client c stops between two invocations of an operation
Crash(c) ==
    /\ cl[c].pc \in {"add", "requery", "query", "delete"}
    /\ cl[c].log # << >>
    /\ cl' = [ cl EXCEPT ![c].pc = "crashed" ]
    /\ UNCHANGED << typ, dot, absent, srv, prev, res, call >>

\* one client, one operation after the other
Next ==
    \/ Start(1)
    \/ Add(1)
    \/ Requery(1)
    \/ Query(1)
    \/ Delete(1)

Spec == Init /\ [][Next]_vars

\* two clients on the same key
InitConc ==
    /\ Init
    /\ srv.held
    /\ absent = "norecord"

NextConc ==
    \/ \E c \in Clients : StartConc(c)
    \/ \E c \in Clients : Add(c)
    \/ \E c \in Clients : Requery(c)
    \/ \E c \in Clients : Query(c)
    \/ \E c \in Clients : Delete(c)
    \/ \E c \in Clients : Crash(c)

SpecConc == InitConc /\ [][NextConc]_vars

(***************************************************************************)
(* Part 6.  The properties.                                                *)
(***************************************************************************)

\* the equivalence of two values under the Value Normalizer: the expanded
\* forms for AAAA, one trailing dot for CNAME and PTR, the bytes otherwise
CanonEquivalent(t, a, b) ==
    IF t = TypeAAAA THEN normalizeIPv6(a) = normalizeIPv6(b)
    ELSE IF t \in {TypeCNAME, TypePTR} THEN TrimSuffix(a, <<".">>) = TrimSuffix(b, <<".">>)
    ELSE a = b

\* the Value a query of the server reports now (the server holds a record)
StoredValue ==
    QueryRecord(Success(srv, QueryOutput(typ, srv.data, srv.ttl, dot)), typ).rec.Value

\* the record data the value v denotes to the tool
Denoted(v) == ServerParse(typ, v).segs

\* the Value of the record v denotes, in the encoding of this server's
\* listing ("hostname priority" for MX)
Native(v) ==
    IF typ = TypeMX THEN Denoted(v)[1] \o <<" ">> \o Denoted(v)[2]
    ELSE ServerRender(typ, Denoted(v), dot)

\* the log of frame f is the invocations cmds, in this order
Issued(f, cmds) ==
    /\ Len(f.log) = Len(cmds)
    /\ \A i \in 1..Len(cmds) : f.log[i].cmd = cmds[i]

\* C1: Create(r) twice in a row with the identical Value succeeds both times
\* and leaves exactly the record r denotes.  (The first Create returned no
\* error and ran clean; this states the same of the second.)
C1_IdempotentCreate ==
    \A c \in Clients :
        ( /\ cl[c].pc = "done" /\ cl[c].op = "Create" /\ Clean(cl[c])
          /\ prev[c].op = "Create" /\ prev[c].val = cl[c].new )
        => ( /\ cl[c].err = NilErr
             /\ srv.held
             /\ srv.data = Denoted(cl[c].new) )

\* C2: when the add fails with "already exist" and the re-query returns a
\* value canonically equivalent to the requested one, Create succeeds.
C2_EquivalentValueIsSuccess ==
    \A c \in Clients :
        ( /\ cl[c].pc = "done" /\ cl[c].op = "Create" /\ ~cl[c].foreign
          /\ Issued(cl[c], <<"add", "query">>)
          /\ cl[c].log[1].tag = "exists" /\ cl[c].log[2].tag = "ok"
          /\ srv.held
          /\ CanonEquivalent(typ, StoredValue, cl[c].new) )
        => cl[c].err = NilErr

\* C3: a Create for a key that holds a record leaves that record as it is,
\* whatever it returns; and when the held value is canonically different from
\* the requested one, Create returns an error, the conflict error when no
\* invocation failed in transport.
C3_ConflictingCreate ==
    [][ \A c \in Clients :
          ( cl[c].pc \in {"add", "requery"} /\ cl'[c] # cl[c] /\ srv.held )
          => ( /\ srv' = srv
               /\ ( ( /\ cl[c].op = "Create" /\ cl'[c].pc = "done"
                      /\ ~CanonEquivalent(typ, StoredValue, cl[c].new) )
                    => ( /\ cl'[c].err # NilErr
                         /\ (Clean(cl'[c]) => cl'[c].err = ConflictErr) ) ) ) ]_vars

\* C3 witness: a Create returned the conflict error for a key whose record,
\* of a canonically different value, is still there
C3_Witness ==
    \E c \in Clients :
        /\ cl[c].pc = "done" /\ cl[c].op = "Create" /\ Clean(cl[c])
        /\ cl[c].err = ConflictErr
        /\ srv.held
        /\ ~CanonEquivalent(typ, StoredValue, cl[c].new)
        /\ srv.data # Denoted(cl[c].new)

\* the only invocation of the operation of frame f
Only(f) == f.log[1]

IsAbsent(f) == f.err = NilErr /\ ~f.rec.present

\* C5: Query on a key the server does not hold returns "absent" for each of
\* the three texts that report absence; a failure that carries none of them
\* is returned as the error and never as "absent".
C5_QueryAbsence ==
    /\ \A tag \in NotExistTags : QueryRecord(Failure(srv, tag), typ) = [err |-> NilErr, rec |-> NoRec]
    /\ \A c \in Clients :
         ( cl[c].pc = "done" /\ cl[c].op = "Query" )
         => ( /\ Issued(cl[c], <<"query">>)
              /\ (~Only(cl[c]).held => Only(cl[c]).tag \in {absent, "logon"})
              /\ (Only(cl[c]).tag \in NotExistTags => IsAbsent(cl[c]))
              /\ (Only(cl[c]).tag = "logon"
                    => cl[c].err = ToolErr("logon") /\ ~cl[c].rec.present)
              /\ (IsAbsent(cl[c]) => Only(cl[c]).tag \in NotExistTags) )

\* C5 witness: a Query of a key the server does not hold, answered with the
\* generic text, returned "absent"
C5_Witness ==
    \E c \in Clients :
        /\ cl[c].pc = "done" /\ cl[c].op = "Query"
        /\ ~Only(cl[c]).held /\ Only(cl[c]).tag = "generic"
        /\ IsAbsent(cl[c])

\* the listing has a line for the type, and that line an opening parenthesis
WellShaped(output, t) ==
    \E i \in 1..Len(Split(output, <<"\n">>)) :
        LET line == TrimSpace(Split(output, <<"\n">>)[i])
        IN  HasPrefix(line, ToUpper(t) \o <<":">>) /\ Contains(line, <<"(">>)

\* C6: when the query invocation succeeds but its listing has no line for the
\* type, or that line has no parenthesis, Query returns a parse error and no
\* record: not "absent", not a record.
C6_ParseError ==
    /\ \A sh \in GarbledShapes : ~WellShaped(GarbledOutput(typ, sh), typ)
    /\ \A c \in Clients :
         ( cl[c].pc = "done" /\ cl[c].op = "Query" /\ Only(cl[c]).tag \in GarbledShapes )
         => ( /\ cl[c].err.kind = "parse"
              /\ cl[c].err.tag = (IF Only(cl[c]).tag = "noline" THEN ParseErrNotFound
                                  ELSE ParseErrFormat)
              /\ ~cl[c].rec.present
              /\ ~IsAbsent(cl[c]) )

\* C6 witness: a Query whose listing had the type's line without a
\* parenthesis returned the parse error
C6_Witness ==
    \E c \in Clients :
        /\ cl[c].pc = "done" /\ cl[c].op = "Query"
        /\ Only(cl[c]).tag = "noparen"
        /\ cl[c].err = ParseErr(ParseErrFormat)

\* the places in the log of frame f of the invocations of cmd
Places(f, cmd) == { i \in 1..Len(f.log) : f.log[i].cmd = cmd }

\* DeleteRecord returned no error for the invocation e: the tool removed the
\* record, or answered that there is none
DeleteSucceeded(e) == e.tag \in NotExistTags \cup {"ok"}

\* the operation of frame f ended in its CreateRecord, with an error
CreateFailed(f) ==
    /\ f.err # NilErr
    /\ \/ f.log[Len(f.log)].cmd = "add"
       \/ /\ Len(f.log) >= 2
          /\ f.log[Len(f.log) - 1].cmd = "add"
          /\ f.log[Len(f.log) - 1].tag = "exists"

\* C7, as stated: Update issues the delete of old before the add of new; if
\* the delete fails (other than with "does not exist") Update fails and no
\* add is issued; if the delete succeeds and the add fails, Update returns a
\* create-phase error and the key is left absent.
C7_UpdateLeavesKeyAbsent ==
    \A c \in Clients :
        ( cl[c].pc = "done" /\ cl[c].op \in {"Update", "ResUpdate"} /\ ~cl[c].foreign )
        => ( /\ \A i \in Places(cl[c], "add"), j \in Places(cl[c], "delete") : j < i
             /\ \A j \in Places(cl[c], "delete") :
                  /\ ~DeleteSucceeded(cl[c].log[j])
                       => ( /\ cl[c].err = Wrap("failed to delete old record", ToolErr(cl[c].log[j].tag))
                            /\ Places(cl[c], "add") = {} )
                  /\ ( DeleteSucceeded(cl[c].log[j]) /\ CreateFailed(cl[c]) )
                       => ( /\ cl[c].err.wrap = "failed to create new record"
                            /\ ~srv.held ) )

\* C7, amended: as above, but the key is left absent when the delete removed
\* the record or found the key absent; when the delete was answered "does not
\* exist" for a key that holds a record old does not denote, that record is
\* still there after the failed add.
C7_UpdateOrder ==
    \A c \in Clients :
        ( cl[c].pc = "done" /\ cl[c].op \in {"Update", "ResUpdate"} /\ ~cl[c].foreign )
        => ( /\ \A i \in Places(cl[c], "add"), j \in Places(cl[c], "delete") : j < i
             /\ \A j \in Places(cl[c], "delete") :
                  /\ ~DeleteSucceeded(cl[c].log[j])
                       => ( /\ cl[c].err = Wrap("failed to delete old record", ToolErr(cl[c].log[j].tag))
                            /\ Places(cl[c], "add") = {} )
                  /\ ( DeleteSucceeded(cl[c].log[j]) /\ CreateFailed(cl[c]) )
                       => ( /\ cl[c].err.wrap = "failed to create new record"
                            /\ srv.held = (cl[c].log[j].held /\ cl[c].log[j].tag # "ok") ) )

\* C7 witness: an Update whose delete removed the record and whose add failed
\* returned the create-phase error, the key absent
C7_Witness ==
    \E c \in Clients :
        /\ cl[c].pc = "done" /\ cl[c].op = "Update"
        /\ Issued(cl[c], <<"delete", "add">>)
        /\ cl[c].log[1].tag = "ok" /\ cl[c].log[2].tag = "logon"
        /\ cl[c].err = Wrap("failed to create new record", ToolErr("logon"))
        /\ ~srv.held

\* C8: on one key, with no other client and no tool failure: after Create(v1)
\* Query returns v1 with a TTL; after Update(v1 -> v2) Query returns v2; after
\* Delete Query returns absent.  (The value is compared in the encoding of the
\* server's listing.)
C8_Lifecycle ==
    \A c \in Clients :
        ( cl[c].pc = "done" /\ cl[c].op = "Query" /\ Clean(cl[c]) )
        => ( /\ prev[c].op \in {"Create", "Update", "ResUpdate"}
                  => ( /\ cl[c].rec.present
                       /\ cl[c].rec.Value = Native(prev[c].val)
                       /\ cl[c].rec.TTL >= 0 )
             /\ ( prev[c].op = "ResDelete" \/ (prev[c].op = "Delete" /\ prev[c].removed) )
                  => IsAbsent(cl[c]) )

\* C9: the Value a Query returns, passed unchanged to Delete, makes the
\* delete invocation remove the record the server holds (the resource's
\* delete and update do exactly this).
C9_QueryThenDelete ==
    \A c \in Clients :
        ( cl[c].pc = "done" /\ cl[c].op \in {"ResDelete", "ResUpdate"} /\ Clean(cl[c]) )
        => \A j \in Places(cl[c], "delete") : cl[c].log[j].tag = "ok"

\* the update of frame f stands between its two phases: its delete, aimed at
\* the record the key held, has completed, its add has not been issued, and
\* no other client has changed the key since
BetweenPhases(f) ==
    /\ f.op \in {"Update", "ResUpdate"}
    /\ f.pc \in {"add", "crashed"}
    /\ ~f.foreign
    /\ f.log # << >>
    /\ f.log[Len(f.log)].cmd = "delete"
    /\ f.log[Len(f.log)].held
    /\ \/ f.log[Len(f.log)].tag = "ok"
       \/ f.op = "ResUpdate"
       \/ srv.held /\ srv.data = Denoted(f.old)

\* C10: while one client stands between the two phases of an update of an
\* existing record, or has stopped there, every Query of another client
\* returns absent, as long as no Create for the key has succeeded.
C10_UpdateNotAtomic ==
    [][ \A c \in Clients, d \in Clients :
          ( /\ c # d
            /\ BetweenPhases(cl[c])
            /\ cl[d].op = "Query" /\ cl[d].pc = "query"
            /\ cl'[d].pc = "done"
            /\ cl'[d].log[Len(cl'[d].log)].tag \notin FaultTags )
          => IsAbsent(cl'[d]) ]_vars

(***************************************************************************)
(* Part 7.  The functions of the provider, applied to bounded inputs.      *)
(*                                                                         *)
(* call holds one application: the function, its arguments, and, once the  *)
(* function has been applied, what it returned.  src keeps what the        *)
(* arguments were made of (the TXT strings of an encoded value, the        *)
(* components of a built ID).                                              *)
(***************************************************************************)

Pending(fn, args, src) ==
    [ fn |-> fn, args |-> args, src |-> src, ret |-> << >>, done |-> FALSE ]

Returned(c, ret) == [ c EXCEPT !.ret = ret, !.done = TRUE ]

\* IP literals: a left part, ":" or "::", a right part; and some more
IPLeft == { << >>, <<"1">>, <<"2","0","0","1",":","d","b","8">>, <<"2","0","0","1",":","0","D","B","8">>, <<"0",":","0",":","0",":","0",":","0">>, <<"1",":","2",":","3",":","4",":","5",":","6",":","7">> }

IPSep == { <<":">>, <<":",":">> }

IPRight == { << >>, <<"1">>, <<"0","0","0","1">>, <<"f","f","f","f",":","1",".","2",".","3",".","4">>, <<"F","F","F","F",":","1","0","2",":","3","0","4">>, <<"1",".","2",".","3",".","4">>,
             <<"0",":","0",":","0",":","0",":","0",":","1">>, <<"g">> }

IPExtra == { <<"1",".","2",".","3",".","4">>, <<"0","1",".","2",".","3",".","4">>, <<"1",".","2",".","3">>, << >>, <<"x">>,
             <<"2","0","0","1",":","0","d","b","8",":","0","0","0","0",":","0","0","0","0",":","0","0","0","0",":","0","0","0","0",":","0","0","0","0",":","0","0","0","1">>, <<"1","2","3","4","5",":",":","1">>,
             <<"1",".","2",".","3",".","4",":",":">>, <<":",":","1","%","e">>, <<"0",":","0",":","0",":","0",":","0",":","0",":","0",":","1">> }

IPLiterals == { l \o s \o r : l \in IPLeft, s \in IPSep, r \in IPRight } \cup IPExtra

\* the literals every literal is compared with
IPOthers == { <<"2","0","0","1",":","d","b","8",":",":","1">>, <<"2","0","0","1",":","0","d","b","8",":","0","0","0","0",":","0","0","0","0",":","0","0","0","0",":","0","0","0","0",":","0","0","0","0",":","0","0","0","1">>, <<":",":","1">>,
              <<":",":","f","f","f","f",":","1",".","2",".","3",".","4">>, <<":",":","f","f","f","f",":","1","0","2",":","3","0","4">>, <<"1",".","2",".","3",".","4">>, <<"x">> }

\* the record type as a configuration may spell it
TypeSpellings == { <<"A">>, <<"a">>, <<"A","A","A","A">>, <<"a","a","a","a">>, <<"C","N","A","M","E">>, <<"c","n","a","m","e">>, <<"C","n","a","m","e">>, <<"P","T","R">>, <<"p","t","r">>,
                   <<"M","X">>, <<"m","x">>, <<"T","X","T">>, <<"t","x","t">>, <<"N","S">>, <<"S","R","V">> }

HostNames == { <<"t",".","x">>, <<"t",".","x",".">>, <<"t",".","x",".",".">>, <<"u",".","x">>, <<".">>, << >> }

\* the listings parseQueryOutput is given: a header line, then the line of a
\* record: label, value, priority group, attribute group
ListingHeader == <<" "," ","N","a","m","e","=",","," ","R","e","c","o","r","d","s","=","1",","," ","C","h","i","l","d","r","e","n","=","0">>

ListingLabels == { <<"M","X">>, <<"A">>, <<"T","X","T">>, <<"C","N","A","M","E">> }

ListingValues == { <<"m",".","x">>, <<"m",".","x",".">>, <<"m",".","x",".",".">>, <<"1",".","2",".","3",".","4">>, <<"\"","a","\"">>, <<"\"","t","t","l","=","5","\"">>, <<"\"","a","(","b","\"">>, << >> }

ListingPriorities == { << >>, <<" ","(","1","0",")">>, <<" ","(","0","0","7",")">>,
                       <<" ","(","1","x",")">>, <<" ","(",")">> }

ListingAttrs == { <<" ","(","f","l","a","g","s","=","f","0",","," ","s","e","r","i","a","l","=","0",","," ","t","t","l","=","9","0","0",")">>, <<" ","(","f","l","a","g","s","=","f","0",","," ","s","e","r","i","a","l","=","0",")">>,
                  <<" ","(","t","t","l","=","9","9","9","9","9","9","9","9","9","9","9","9","9","9","9","9","9","9","9","9",")">>, <<" ","(","f","l","a","g","s","=","f","0",","," ","t","t","l","=","0",")">>, << >> }

Listing(label, value, priority, attrs) ==
    ListingHeader \o <<"\n">> \o <<" ", " ">> \o label \o <<":", " ">> \o value \o priority \o attrs

RequestedTypes == { <<"M","X">>, <<"m","x">>, <<"A">>, <<"a">>, <<"T","X","T">>, <<"C","N","A","M","E">> }

\* the strings of a TXT record, and the sequences of them a record may hold
TXTStrings == { <<"a">>, <<"v","=","s","p","f","1">>, <<"~","a","l","l">>, <<"a",",","b">>, <<" ","a">>, <<"a"," ","b">> }

TXTRecords ==
    { <<x>> : x \in TXTStrings }
    \cup { <<x, y>> : x \in TXTStrings, y \in TXTStrings }
    \cup { <<x, y, x>> : x \in {<<"a">>, <<"a",",","b">>}, y \in {<<"a">>, <<"~","a","l","l">>} }

\* the listing's encoding of a TXT record: each string in double quotes,
\* joined by commas
TXTQueryEncoding(segs) ==
    Join([ i \in 1..Len(segs) |-> <<"\"">> \o segs[i] \o <<"\"">> ], <<",">>)

\* values of other types handed to DeleteRecord
PlainValues == { <<"m",".","x"," ","1","0">>, <<"1",".","2",".","3",".","4">>, <<"a",",","b">>, <<"t",".","x",".">> }

IDServers == { <<"d","c","0","1">>, <<"d","/","c">> }

IDZones == { <<"x",".","c","o","m">>, <<"x","/","y">> }

IDNames == { <<"w","e","b">>, <<"a","/","b">>, <<"@">>, << >> }

RawIDs == { << >>, <<"a">>, <<"a","/","b">>, <<"a","/","b","/","c">>, <<"a","/","b","/","c","/","d">>, <<"a","/","b","/","c","/","d","/","e">>, <<"/","/">>, <<"/","/","/">>,
            <<"d","c","0","1","/","e","x","a","m","p","l","e",".","c","o","m","/","w","e","b","/","a">> }

\* the applications SpecFn starts from
FnCalls ==
    { Pending("normalizeIPv6", <<ip>>, << >>) : ip \in IPLiterals }
    \cup { Pending("suppressValueDiff", <<t, a, b>>, << >>) :
             t \in {TypeAAAA, <<"a","a","a","a">>}, a \in IPLiterals, b \in IPOthers }
    \cup { Pending("suppressValueDiff", <<t, a, b>>, << >>) :
             t \in TypeSpellings, a \in HostNames, b \in HostNames }
    \cup { Pending("parseQueryOutput", <<Listing(l, v, p, a), t>>, <<l, v, p, a>>) :
             l \in ListingLabels, v \in ListingValues, p \in ListingPriorities,
             a \in ListingAttrs, t \in RequestedTypes }
    \cup { Pending("DeleteRecord", <<t, TXTQueryEncoding(segs)>>, segs) :
             t \in {TypeTXT, <<"t","x","t">>, <<"T","x","t">>, TypeA}, segs \in TXTRecords }
    \cup { Pending("DeleteRecord", <<t, v>>, << >>) :
             t \in {TypeTXT, TypeMX, TypeA, TypeCNAME}, v \in PlainValues }
    \cup { Pending("buildID", <<sv, z, n, t>>, << >>) :
             sv \in IDServers, z \in IDZones, n \in IDNames, t \in TypeSpellings }
    \cup { Pending("parseID", <<id>>, << >>) : id \in RawIDs }

InitFn ==
    /\ typ = TypeA
    /\ dot = TRUE
    /\ absent = "norecord"
    /\ srv = NoRecord
    /\ cl = [ c \in Clients |-> Idle ]
    /\ prev = [ c \in Clients |-> NoPrev ]
    /\ res = NoRes
    /\ call \in FnCalls

\* normalizeIPv6(ip)
NormalizeIPv6 ==
    /\ call.fn = "normalizeIPv6"
    /\ ~call.done
    /\ call' = Returned(call, normalizeIPv6(call.args[1]))
    /\ UNCHANGED << typ, dot, absent, srv, cl, prev, res >>

\* suppressValueDiff(k, old, new, d)
SuppressValueDiff ==
    /\ call.fn = "suppressValueDiff"
    /\ ~call.done
    /\ call' = Returned(call, suppressValueDiff(call.args[1], call.args[2], call.args[3]))
    /\ UNCHANGED << typ, dot, absent, srv, cl, prev, res >>

\* parseQueryOutput(output, server, zone, name, recordType)
ParseQueryOutput ==
    /\ call.fn = "parseQueryOutput"
    /\ ~call.done
    /\ call' = Returned(call, parseQueryOutput(call.args[1], call.args[2]))
    /\ UNCHANGED << typ, dot, absent, srv, cl, prev, res >>

\* DeleteRecord(r), up to the value argument of its invocation
DeleteArgument ==
    /\ call.fn = "DeleteRecord"
    /\ ~call.done
    /\ call' = Returned(call, DeleteValue(call.args[1], call.args[2]))
    /\ UNCHANGED << typ, dot, absent, srv, cl, prev, res >>

\* buildID(server, zone, name, recordType)
BuildID ==
    /\ call.fn = "buildID"
    /\ ~call.done
    /\ call' = Returned(call, buildID(call.args[1], call.args[2], call.args[3], call.args[4]))
    /\ UNCHANGED << typ, dot, absent, srv, cl, prev, res >>

\* parseID(id), of a given ID or of the ID buildID returned
ParseID ==
    /\ \/ call.fn = "parseID" /\ ~call.done
       \/ call.fn = "buildID" /\ call.done
    /\ call' = IF call.fn = "parseID"
               THEN Returned(call, parseID(call.args[1]))
               ELSE [ fn |-> "parseID", args |-> <<call.ret>>, src |-> call.args,
                      ret |-> parseID(call.ret), done |-> TRUE ]
    /\ UNCHANGED << typ, dot, absent, srv, cl, prev, res >>

NextFn ==
    \/ NormalizeIPv6
    \/ SuppressValueDiff
    \/ ParseQueryOutput
    \/ DeleteArgument
    \/ BuildID
    \/ ParseID

SpecFn == InitFn /\ [][NextFn]_vars

(***************************************************************************)
(* Part 8.  Properties of the functions.                                   *)
(***************************************************************************)

\* the literal parses as an IPv6 address that is not an IPv4 or IPv4-mapped one
IsPlainIPv6(ip) == IF ParseIP(ip) = << >> THEN FALSE ELSE ~IsTo4(ParseIP(ip))

\* s is eight groups of four lower-case hex digits, joined by colons
IsExpandedForm(s) ==
    LET gs == Split(s, <<":">>)
    IN  /\ Len(gs) = 8
        /\ \A i \in 1..8 :
             /\ Len(gs[i]) = 4
             /\ \A j \in 1..4 : \E k \in 1..Len(HexDigits) : HexDigits[k] = gs[i][j]

\* C11: normalizeIPv6 returns, for a parseable IPv6 literal that is not
\* IPv4-mapped, the 8-group zero-padded lower-case form of the same address;
\* it returns an IPv4, IPv4-mapped or unparseable literal unchanged; it is
\* idempotent; and the AAAA diff suppression treats two such IPv6 literals as
\* equal iff they denote the same address.
C11_AAAACanonical ==
    /\ ( call.fn = "normalizeIPv6" /\ call.done )
         => ( /\ IsPlainIPv6(call.args[1])
                   => ( /\ IsExpandedForm(call.ret)
                        /\ ParseIP(call.ret) = ParseIP(call.args[1]) )
              /\ ~IsPlainIPv6(call.args[1]) => call.ret = call.args[1]
              /\ normalizeIPv6(call.ret) = call.ret )
    /\ ( /\ call.fn = "suppressValueDiff" /\ call.done
         /\ ToUpper(call.args[1]) = TypeAAAA
         /\ IsPlainIPv6(call.args[2]) /\ IsPlainIPv6(call.args[3]) )
         => ( call.ret <=> ParseIP(call.args[2]) = ParseIP(call.args[3]) )

\* C11 witness: the compressed literal has been expanded
C11_Witness ==
    /\ call.fn = "normalizeIPv6" /\ call.done
    /\ call.args[1] = <<"2","0","0","1",":","d","b","8",":",":","1">>
    /\ call.ret = <<"2","0","0","1",":","0","d","b","8",":","0","0","0","0",":","0","0","0","0",":","0","0","0","0",":","0","0","0","0",":","0","0","0","0",":","0","0","0","1">>

\* s without its final dot, when it has one
StripOneDot(s) ==
    IF s # << >> /\ s[Len(s)] = "." THEN SubSeq(s, 1, Len(s) - 1) ELSE s

\* C12: for CNAME and PTR the diff suppression finds two different values
\* equivalent exactly when they agree after one trailing dot is stripped from
\* each (so not when they differ by two trailing dots); for
\* every other type except AAAA two different values are never equivalent.
C12_TrailingDot ==
    ( call.fn = "suppressValueDiff" /\ call.done )
    => ( /\ ( ToUpper(call.args[1]) \in {TypeCNAME, TypePTR}
              /\ call.args[2] # call.args[3] )
              => ( call.ret <=> StripOneDot(call.args[2]) = StripOneDot(call.args[3]) )
         /\ ( ToUpper(call.args[1]) \notin {TypeCNAME, TypePTR, TypeAAAA}
              /\ call.args[2] # call.args[3] )
              => ~call.ret )

\* the parts the listing line of a parseQueryOutput call was made of
LineLabel == call.src[1]

LineValue == call.src[2]

LinePriority == call.src[3]

LineAttrs == call.src[4]

\* the line of the listing is the line of the requested type
LineMatches == call.fn = "parseQueryOutput" /\ call.done /\ ToUpper(call.args[2]) = LineLabel

\* the digits inside a priority group " (<digits>)"
PriorityDigits(p) == SubSeq(p, 3, Len(p) - 1)

\* the line is an MX line of the shape "<hostname>[.] (<digits>) (flags=..., ttl=<n>)"
MXShaped ==
    /\ LineMatches
    /\ LineLabel = TypeMX
    /\ LineValue \in { <<"m",".","x">>, <<"m",".","x",".">>, <<"m",".","x",".",".">>, <<"1",".","2",".","3",".","4">> }
    /\ LinePriority \in { <<" ","(","1","0",")">>, <<" ","(","0","0","7",")">> }
    /\ LineAttrs \in { <<" ","(","f","l","a","g","s","=","f","0",","," ","s","e","r","i","a","l","=","0",","," ","t","t","l","=","9","0","0",")">>, <<" ","(","f","l","a","g","s","=","f","0",","," ","t","t","l","=","0",")">> }

C14_MXPriorityRequired ==
    ( /\ LineMatches
      /\ LineLabel = TypeMX
      /\ LinePriority \notin { <<" ","(","1","0",")">>, <<" ","(","0","0","7",")">> } )
    => call.ret.err # "nil"

\* the argument "dns delete" takes for a TXT record: each string in single
\* quotes, joined by single spaces
TXTDeleteEncoding(segs) ==
    Join([ i \in 1..Len(segs) |-> <<"'">> \o segs[i] \o <<"'">> ], <<" ">>)

\* C15: for a TXT record of two or more strings, given in the listing's
\* encoding, the value argument of the delete invocation is the strings, each
\* in single quotes and unchanged, joined by single spaces; the value is
\* transformed iff the type is TXT (in any case) and the value has a comma.
C15_TXTDeleteEncoding ==
    ( call.fn = "DeleteRecord" /\ call.done )
    => ( /\ ( ToUpper(call.args[1]) = TypeTXT /\ Len(call.src) >= 2 )
              => call.ret = TXTDeleteEncoding(call.src)
         /\ ( ToUpper(call.args[1]) = TypeTXT /\ Contains(call.args[2], <<",">>) )
              <=> call.ret # call.args[2] )

\* the TTL the attribute group of the line gives: the number of its ttl=
\* field, DefaultTTL when it has none
AttrsTTL(attrs) ==
    IF attrs = <<" ","(","f","l","a","g","s","=","f","0",","," ","s","e","r","i","a","l","=","0",","," ","t","t","l","=","9","0","0",")">> THEN 900
    ELSE IF attrs = <<" ","(","f","l","a","g","s","=","f","0",","," ","t","t","l","=","0",")">> THEN 0
    ELSE DefaultTTL

\* C16: every record parseQueryOutput returns has a TTL >= 0, the number of
\* the ttl= field of the attribute group when there is one and 3600 when
\* there is none; the text of the value never determines it.
C16_TTL ==
    ( /\ LineMatches
      /\ call.ret.err = "nil"
      /\ LineAttrs # <<" ","(","t","t","l","=","9","9","9","9","9","9","9","9","9","9","9","9","9","9","9","9","9","9","9","9",")">> )
    => ( /\ call.ret.TTL >= 0
         /\ call.ret.TTL = AttrsTTL(LineAttrs) )

\* the number of "/" in s
Slashes(s) == Cardinality({ i \in 1..Len(s) : s[i] = "/" })

\* the call parsed the ID that buildID made of src
Reparsed == call.fn = "parseID" /\ call.done /\ call.src # << >>

\* C17: parseID(buildID(server, zone, name, type)) returns server, zone, name
\* and the upper-case type when server, zone and name have no "/"; parseID
\* returns an error for every string with fewer than three "/"; and when the
\* name has a "/", what parseID recovers differs from what buildID was given.
C17_IDRoundTrip ==
    /\ ( Reparsed /\ \A i \in 1..3 : Slashes(call.src[i]) = 0 )
         => call.ret = [ err |-> "nil", server |-> call.src[1], zone |-> call.src[2],
                         name |-> call.src[3], recordType |-> ToUpper(call.src[4]) ]
    /\ ( call.fn = "parseID" /\ call.done /\ Slashes(call.args[1]) < 3 )
         => call.ret.err # "nil"
    /\ ( Reparsed /\ Slashes(call.src[1]) = 0 /\ Slashes(call.src[2]) = 0
         /\ Slashes(call.src[3]) > 0 )
         => ( /\ call.ret.err = "nil"
              /\ << call.ret.server, call.ret.zone, call.ret.name, call.ret.recordType >>
                   # << call.src[1], call.src[2], call.src[3], ToUpper(call.src[4]) >> )

\* C17 witness: the ID built of dc01, x.com, web and the type "a" was parsed
\* back, the type in upper case
C17_Witness ==
    /\ Reparsed
    /\ call.src = << <<"d","c","0","1">>, <<"x",".","c","o","m">>, <<"w","e","b">>, <<"a">> >>
    /\ call.args[1] = <<"d","c","0","1","/","x",".","c","o","m","/","w","e","b","/","A">>
    /\ call.ret.recordType = TypeA

(***************************************************************************)
(* Part 9.  The provider: configure, the resource's create, read and       *)
(* import, and the data source's read, on the one key.                     *)
(*                                                                         *)
(* res holds the provider's client (when configure made one), the data of  *)
(* the resource (its configuration, its ID and its state) and, as for the  *)
(* client's operations, where the handler stands and the invocations it    *)
(* issued, each with the type argument it carried.  The tool reads its     *)
(* type argument in any case.                                              *)
(***************************************************************************)

Server == <<"d","c","0","1">>

Zone == <<"x",".","c","o","m">>

Name == <<"w","e","b">>

RECURSIVE ToLower(_)
ToLower(s) == IF s = << >> THEN << >> ELSE << LowerChar(s[1]) >> \o ToLower(Tail(s))

\* the type of the key, as a configuration or an imported ID may spell it
Spellings(t) == { t, ToLower(t) }

\* the IDs given to import
ImportIDs(t) ==
    { Server \o <<"/">> \o Zone \o <<"/">> \o Name \o <<"/">> \o sp : sp \in Spellings(t) }
    \cup { Server \o <<"/">> \o Zone }

\* the configured username and password, and SAMBADNS_USERNAME and
\* SAMBADNS_PASSWORD, as configure finds them
Credentials ==
    { << <<"u">>, <<"p">>, << >>, << >> >>, << <<"u">>, << >>, <<"e">>, <<"q">> >>,
      << <<"u">>, << >>, << >>, << >> >>, << << >>, <<"p">>, << >>, <<"q">> >>,
      << << >>, << >>, << >>, << >> >> }

\* a configuration that requires the username only
configureUsernameOnly(r, given) ==
    LET username == IF given[3] # << >> THEN given[3] ELSE given[1]
        password == IF given[4] # << >> THEN given[4] ELSE given[2]
    IN  IF username = << >>
        THEN [ r EXCEPT !.configured = TRUE, !.given = given,
                        !.cfgerr = "username and password are required" ]
        ELSE [ r EXCEPT !.configured = TRUE, !.given = given, !.client = TRUE,
                        !.username = username, !.password = password ]

\* configure: given = <<username, password, SAMBADNS_USERNAME, SAMBADNS_PASSWORD>>
configure(r, given) ==
    LET username == IF given[3] # << >> THEN given[3] ELSE given[1]
        password == IF given[4] # << >> THEN given[4] ELSE given[2]
    IN  IF username = << >> \/ password = << >>
        THEN [ r EXCEPT !.configured = TRUE, !.given = given,
                        !.cfgerr = "username and password are required" ]
        ELSE [ r EXCEPT !.configured = TRUE, !.given = given, !.client = TRUE,
                        !.username = username, !.password = password ]

\* the handler ends with err
ResDone(r, err) == [ r EXCEPT !.pc = "done", !.err = err ]

\* resourceRecordRead up to its query: parseID(d.Id())
ReadBegin(r) ==
    LET p == parseID(r.id)
    IN  IF p.err # "nil" THEN ResDone(r, ParseErr(p.err))
        ELSE [ r EXCEPT !.pc = "query", !.qtype = p.recordType ]

\* resourceRecordCreate after CreateRecord returned err
ResAfterCreate(r, err) ==
    IF err # NilErr THEN ResDone(r, Wrap("failed to create record", err))
    ELSE ReadBegin([ r EXCEPT !.id = buildID(Server, Zone, Name, ToUpper(r.cfgType)) ])

\* a read that reports an absent record as an error to every caller
ResAfterQueryAbsentIsError(r, q, recType) ==
    IF q.err # NilErr THEN ResDone(r, Wrap("failed to query record", q.err))
    ELSE IF ~q.rec.present THEN ResDone(r, [kind |-> "notfound", tag |-> "", wrap |-> ""])
    ELSE IF r.op = "DataRead"
    THEN ResDone([ r EXCEPT !.dsid = buildID(Server, Zone, Name, r.qtype),
                            !.dsvalue = q.rec.Value, !.dsttl = q.rec.TTL ], NilErr)
    ELSE ResDone([ r EXCEPT !.type = recType, !.value = q.rec.Value,
                            !.ttl = q.rec.TTL ], NilErr)

\* resourceRecordRead and dataSourceRecordRead after QueryRecord returned q,
\* recType being the Type of the record when there is one
ResAfterQuery(r, q, recType) ==
    IF q.err # NilErr THEN ResDone(r, Wrap("failed to query record", q.err))
    ELSE IF r.op = "DataRead"
    THEN IF ~q.rec.present THEN ResDone(r, [kind |-> "notfound", tag |-> "", wrap |-> ""])
         ELSE ResDone([ r EXCEPT !.dsid = buildID(Server, Zone, Name, r.qtype),
                                 !.dsvalue = q.rec.Value, !.dsttl = q.rec.TTL ], NilErr)
    ELSE IF ~q.rec.present THEN ResDone([ r EXCEPT !.id = << >> ], NilErr)
         ELSE ResDone([ r EXCEPT !.type = recType, !.value = q.rec.Value,
                                 !.ttl = q.rec.TTL ], NilErr)

\* the resource is removed from the state: d.SetId("")
Removed(r) ==
    [ r EXCEPT !.id = << >>, !.type = << >>, !.value = << >>, !.ttl = 0,
               !.cfgType = << >>, !.cfgValue = << >> ]

\* resourceRecordDelete after QueryRecord returned q
ResAfterDeleteQuery(r, q) ==
    IF q.err # NilErr THEN ResDone(r, Wrap("failed to query record for deletion", q.err))
    ELSE IF ~q.rec.present THEN ResDone(Removed(r), NilErr)
    ELSE [ r EXCEPT !.pc = "delete", !.old = q.rec.Value ]

\* resourceRecordDelete after DeleteRecord returned err
ResAfterDelete(r, err) ==
    IF err # NilErr THEN ResDone(r, Wrap("failed to delete record", err))
    ELSE ResDone(Removed(r), NilErr)

\* the handler starts: nothing issued yet, and the data source's data, made
\* anew for every read, empty
ResBegin(r, op) ==
    [ r EXCEPT !.op = op, !.log = << >>, !.err = NilErr, !.qtype = << >>, !.old = << >>,
               !.dsid = << >>, !.dsvalue = << >>, !.dsttl = 0 ]

\* the values a configuration gives the resource, by type
ResValues(t) ==
    IF t = TypeA THEN { <<"1",".","2",".","3",".","4">> }
    ELSE IF t = TypeAAAA THEN { <<":",":","1">> }
    ELSE IF t = TypeCNAME THEN { <<"t",".","x">>, <<"u",".","x">> }
    ELSE IF t = TypePTR THEN { <<"p",".","x">> }
    ELSE IF t = TypeMX THEN { <<"m",".","x"," ","1","0">> }
    ELSE { <<"\"","a","\"">>, <<"'","a","'"," ","'","b","'">> }

\* the handlers that can be called, given the data of the resource
ResCalls ==
    ( IF res.id = << >>
      THEN { [ ResBegin(res, "Create") EXCEPT !.pc = "add", !.cfgType = sp, !.cfgValue = v,
                                               !.qtype = ToUpper(sp) ]
             : sp \in Spellings(typ), v \in ResValues(typ) }
           \cup { ReadBegin([ ResBegin(res, "Import") EXCEPT !.id = id ]) : id \in ImportIDs(typ) }
      ELSE { ReadBegin(ResBegin(res, "Read")) }
           \cup { [ ResBegin(res, "Delete") EXCEPT
                      !.pc = "query",
                      !.qtype = ToUpper(IF res.type # << >> THEN res.type ELSE res.cfgType) ]
                  : x \in { y \in {1} : res.type # << >> \/ res.cfgType # << >> } } )
    \cup { [ ResBegin(res, "DataRead") EXCEPT !.pc = "query", !.qtype = ToUpper(sp) ]
           : sp \in Spellings(typ) }

\* the log of a handler: its invocations, each with the type argument, the
\* arguments of the caller, the arguments samba-tool was started with, the
\* kind of outcome and whether the server held a record for the key
ResLogged(r, cmd, args, o) ==
    [ r EXCEPT !.log = Append(@, [cmd |-> cmd, type |-> r.qtype, args |-> args,
                                  argv |-> runCommandArgs(NewSambaClient(r.username, r.password), args),
                                  tag |-> o.tag, held |-> srv.held]) ]

InitRes ==
    /\ Init
    /\ absent = "norecord"

\* configure
Configure ==
    /\ ~res.configured
    /\ \E given \in Credentials : res' = configure(res, given)
    /\ UNCHANGED << typ, dot, absent, srv, cl, prev, call >>

\* a handler is called; it needs the client configure made
ResStart ==
    /\ res.client
    /\ res.pc \in {"idle", "done"}
    /\ res' \in ResCalls
    /\ UNCHANGED << typ, dot, absent, srv, cl, prev, call >>

\* resourceRecordCreate: the "dns add" invocation of CreateRecord
ResAdd ==
    /\ res.pc = "add"
    /\ \E o \in ToolAdd(srv, ToUpper(res.qtype), res.cfgValue) :
           LET g == ResLogged(res, "add", CreateArgs(Server, Zone, Name, res.qtype, res.cfgValue), o)
               r == CreateAfterAdd(o)
           IN  /\ res' = IF r = "requery" THEN [ g EXCEPT !.pc = "requery" ]
                         ELSE ResAfterCreate(g, IF r = "nil" THEN NilErr ELSE ToolErr(o.tag))
               /\ srv' = o.srv
    /\ UNCHANGED << typ, dot, absent, cl, prev, call >>

\* resourceRecordCreate: the re-query of CreateRecord
ResRequery ==
    /\ res.pc = "requery"
    /\ \E o \in ToolQuery(srv, ToUpper(res.qtype), dot, absent) :
           /\ res' = ResAfterCreate(ResLogged(res, "query", QueryArgs(Server, Zone, Name, res.qtype), o),
                                    CreateAfterRequery(QueryRecord(o, res.qtype), res.cfgValue))
           /\ srv' = o.srv
    /\ UNCHANGED << typ, dot, absent, cl, prev, call >>

\* resourceRecordRead, dataSourceRecordRead: the QueryRecord
ResQuery ==
    /\ res.pc = "query"
    /\ \E o \in ToolQuery(srv, ToUpper(res.qtype), dot, absent) :
           LET q == QueryRecord(o, res.qtype)
               g == ResLogged(res, "query", QueryArgs(Server, Zone, Name, res.qtype), o)
           IN  /\ res' = IF res.op = "Delete" THEN ResAfterDeleteQuery(g, q)
                         ELSE ResAfterQuery(g, q,
                                            IF q.err = NilErr /\ q.rec.present
                                            THEN parseQueryOutput(o.out, res.qtype).Type
                                            ELSE << >>)
               /\ srv' = o.srv
    /\ UNCHANGED << typ, dot, absent, cl, prev, call >>

\* resourceRecordDelete: the DeleteRecord
ResDelete ==
    /\ res.pc = "delete"
    /\ LET value == DeleteValue(res.qtype, res.old)
       IN  \E o \in ToolDelete(srv, ToUpper(res.qtype), value, absent) :
               /\ res' = ResAfterDelete(ResLogged(res, "delete",
                                                  DeleteArgs(Server, Zone, Name, res.qtype, value), o),
                                        DeleteResult(o))
               /\ srv' = o.srv
    /\ UNCHANGED << typ, dot, absent, cl, prev, call >>

\* another client of the server removes the record of the key, between two
\* handlers or between the query and the delete of resourceRecordDelete
Foreign ==
    /\ res.pc \in {"idle", "done", "delete"}
    /\ res.client
    /\ srv.held
    /\ srv' = NoRecord
    /\ UNCHANGED << typ, dot, absent, cl, prev, res, call >>

NextRes ==
    \/ Configure
    \/ ResStart
    \/ ResAdd
    \/ ResRequery
    \/ ResQuery
    \/ ResDelete
    \/ Foreign

SpecRes == InitRes /\ [][NextRes]_vars

(***************************************************************************)
(* Part 10.  Properties of the provider.                                   *)
(***************************************************************************)

\* the type component of a well-formed ID; << >> for the empty or an
\* ill-formed ID
IDType(id) == IF parseID(id).err = "nil" THEN parseID(id).recordType ELSE << >>

IsUpperCase(s) == s = ToUpper(s)

\* C18: the record type is upper case wherever it is stored or emitted: in
\* the type argument of every invocation, in the resource's ID once a handler
\* has returned, in the data source's ID, and in the Type of every record the
\* query returned; also when the type comes from an imported ID.
C18_TypeUpperCase ==
    /\ \A i \in 1..Len(res.log) : IsUpperCase(res.log[i].type)
    /\ res.pc = "done" => IsUpperCase(IDType(res.id))
    /\ IsUpperCase(IDType(res.dsid))
    /\ IsUpperCase(res.type)

\* the handler has returned and the query it ended with found the key absent
ReadFoundAbsent ==
    /\ res.pc = "done"
    /\ res.log # << >>
    /\ res.log[Len(res.log)].cmd = "query"
    /\ res.log[Len(res.log)].tag \in NotExistTags

\* C19: the resource's read of an absent record returns no error and clears
\* the resource ID; the data source's read of an absent record returns the
\* "record not found" error and sets no ID.
C19_AbsenceByCaller ==
    /\ ( ReadFoundAbsent /\ res.op \in {"Read", "Import"} )
         => ( res.err = NilErr /\ res.id = << >> )
    /\ ( ReadFoundAbsent /\ res.op = "DataRead" )
         => ( res.err.kind = "notfound" /\ res.dsid = << >> )

\* C19 witness: the read of a resource whose record was removed has cleared
\* the ID the create had set
C19_Witness ==
    /\ ReadFoundAbsent
    /\ res.op = "Read"
    /\ res.cfgValue # << >>
    /\ res.id = << >>
    /\ res.err = NilErr

\* the credentials in force: the environment's value when it is not empty,
\* the configured one otherwise
EffectiveUsername == IF res.given[3] # << >> THEN res.given[3] ELSE res.given[1]

EffectivePassword == IF res.given[4] # << >> THEN res.given[4] ELSE res.given[2]

CredentialsMissing ==
    /\ res.configured
    /\ ( EffectiveUsername = << >> \/ EffectivePassword = << >> )

\* C20: when the username or the password in force is empty, configuration
\* fails with an error and makes no client, and no add, query or delete is
\* ever invoked; a client that exists carries the credentials in force.
C20_MissingCredentials ==
    /\ CredentialsMissing
         => ( ~res.client /\ res.cfgerr # "" /\ res.log = << >> /\ res.pc = "idle" )
    /\ ~res.client => ( res.log = << >> /\ res.pc = "idle" )
    /\ res.client
         => ( /\ res.cfgerr = ""
              /\ res.username = EffectiveUsername /\ res.username # << >>
              /\ res.password = EffectivePassword /\ res.password # << >> )

\* C20 witness: a configuration with a username and no password, in the
\* settings or in the environment, has been rejected
C20_Witness ==
    /\ CredentialsMissing
    /\ EffectiveUsername # << >>
    /\ ~res.client
    /\ res.cfgerr = "username and password are required"

\* the subcommand of an invocation, as the log names it
Subcommand(cmd) ==
    IF cmd = "add" THEN <<"a","d","d">>
    ELSE IF cmd = "query" THEN <<"q","u","e","r","y">>
    ELSE <<"d","e","l","e","t","e">>

C22_RequeryFailureSurfaced ==
    \A c \in Clients :
        ( /\ cl[c].pc = "done" /\ cl[c].op = "Create"
          /\ Issued(cl[c], <<"add", "query">>)
          /\ cl[c].log[1].tag = "exists" )
        => LET tag == cl[c].log[2].tag
           IN  /\ tag = "logon" => cl[c].err = ToolErr("logon")
               /\ tag \in GarbledShapes => cl[c].err.kind = "parse"
               /\ tag \in NotExistTags => cl[c].err # ConflictErr
               /\ cl[c].err = ConflictErr => tag = "ok"

\* the text of the conflict error
ConflictMessage == <<"r","e","c","o","r","d"," ","a","l","r","e","a","d","y"," ","e","x","i","s","t","s"," ","w","i","t","h"," ","d","i","f","f","e","r","e","n","t"," ","v","a","l","u","e">>

\* err.Error() of the error Create returned, its context before it
ErrorText(err) ==
    (IF err.wrap = "" THEN << >>
     ELSE IF err.wrap = "failed to create new record" THEN <<"f","a","i","l","e","d"," ","t","o"," ","c","r","e","a","t","e"," ","n","e","w"," ","r","e","c","o","r","d",":"," ">>
     ELSE <<"f","a","i","l","e","d"," ","t","o"," ","c","r","e","a","t","e"," ","r","e","c","o","r","d",":"," ">>)
    \o (IF err.kind = "conflict" THEN ConflictMessage ELSE runCommandError(err.tag))

\* C23: the conflict error Create returns names both values: the one the
\* server holds, as the re-query returned it, and the one requested.
C23_ConflictNamesValues ==
    \A c \in Clients :
        ( /\ cl[c].pc = "done" /\ cl[c].op = "Create"
          /\ cl[c].err = ConflictErr
          /\ cl[c].log[Len(cl[c].log)].tag = "ok"
          /\ srv.held /\ ~cl[c].foreign )
        => ( /\ Contains(ErrorText(cl[c].err), StoredValue)
             /\ Contains(ErrorText(cl[c].err), cl[c].new) )

\* the outcome of the invocation client c has just issued
LastTag(c) == cl'[c].log[Len(cl'[c].log)].tag

\* the query of the resource's update comes first: a failure ends the update
\* with nothing else issued, an absent key leads to the add, and a record
\* leads to the delete of the value the query returned
UpdateQueriesFirst(c) ==
    ( /\ cl[c].op = "ResUpdate" /\ cl[c].pc = "query" /\ cl[c].phase = "current"
      /\ cl'[c] # cl[c] )
    => ( /\ cl[c].log = << >>
         /\ LastTag(c) \in FaultTags
              => ( /\ cl'[c].pc = "done"
                   /\ cl'[c].err # NilErr
                   /\ cl'[c].err.wrap = "failed to query record for update"
                   /\ Issued(cl'[c], <<"query">>) )
         /\ LastTag(c) \in NotExistTags => cl'[c].pc = "add"
         /\ LastTag(c) = "ok"
              => ( /\ cl'[c].pc = "delete"
                   /\ cl'[c].old = StoredValue ) )

\* the delete of the resource's update is issued for the value the query
\* returned, and that value denotes the record the server held at the query
UpdateDeleteTargetsHeld(c) ==
    ( /\ cl[c].op = "ResUpdate" /\ cl[c].pc = "delete" /\ ~cl[c].foreign
      /\ cl'[c] # cl[c] )
    => ( /\ Issued(cl[c], <<"query">>)
         /\ cl[c].old = StoredValue
         /\ srv.held
         /\ ServerParse(typ, cl'[c].log[2].value).ok
         /\ Denoted(cl'[c].log[2].value) = srv.data )

\* C24: the resource's update queries the server before it changes it and
\* deletes the value that query returned; a query that fails ends the update
\* with no delete and no add, a query that finds the key absent leads straight
\* to the add; so the delete is aimed at the record the server held at the
\* time of the query.
C24_UpdateRequeries ==
    [][ \A c \in Clients : UpdateQueriesFirst(c) /\ UpdateDeleteTargetsHeld(c) ]_vars

(***************************************************************************)
(* Part 11.  The retry of an update that failed in its create phase, and   *)
(* two creates of one key at the same time.                                *)
(***************************************************************************)

\* the update of frame f removed the old record and then failed to create the
\* new one
FailedInCreatePhase(f) ==
    /\ f.pc = "done"
    /\ f.op \in {"Update", "ResUpdate"}
    /\ f.err # NilErr
    /\ f.err.wrap = "failed to create new record"
    /\ \E i \in 1..Len(f.log) : f.log[i].cmd = "delete" /\ f.log[i].tag = "ok"

\* what the caller keeps of such an update, to retry it
SummaryRetry(f) ==
    IF FailedInCreatePhase(f)
    THEN [ op |-> "UpdateFailed", val |-> f.new, removed |-> TRUE,
           kind |-> f.op, old |-> IF f.op = "Update" THEN f.old ELSE << >> ]
    ELSE NoPrev

\* the caller updates; after an update that failed in its create phase it
\* retries, with the Create of the new value alone or with the same update
RetryCalls(f) ==
    IF FailedInCreatePhase(f)
    THEN { Begin("Create", << >>, f.new),
           Begin(f.op, SummaryRetry(f).old, f.new) }
    ELSE { Begin("Update", a[1], a[2]) : a \in Values(typ) \X Values(typ) }
         \cup { Begin("ResUpdate", << >>, new) : new \in Values(typ) }

StartRetry(c) ==
    /\ cl[c].pc \in {"idle", "done"}
    /\ \E f \in RetryCalls(cl[c]) : cl' = [ cl EXCEPT ![c] = f ]
    /\ prev' = [ prev EXCEPT ![c] = SummaryRetry(cl[c]) ]
    /\ UNCHANGED << typ, dot, absent, srv, res, call >>

NextRetry ==
    \/ StartRetry(1)
    \/ Add(1)
    \/ Requery(1)
    \/ Query(1)
    \/ Delete(1)

SpecRetry == Init /\ [][NextRetry]_vars

\* C25: after an update that removed the old record and failed to create the
\* new one, the retry (the Create of the new value alone, or the same update
\* again) issues no delete that removes a record, never leaves a record other
\* than the new one on the server and, when no invocation of it fails, returns
\* success with the key holding exactly the new record.
C25_RetryConverges ==
    \A c \in Clients :
        prev[c].op = "UpdateFailed"
        => ( /\ srv.held => srv.data = Denoted(prev[c].val)
             /\ \A i \in Places(cl[c], "delete") : cl[c].log[i].tag # "ok"
             /\ ( cl[c].pc = "done" /\ Clean(cl[c]) )
                  => ( /\ cl[c].err = NilErr
                       /\ srv.held
                       /\ srv.data = Denoted(prev[c].val) ) )

\* C25 witness: the same update, run again after it failed in its create
\* phase, found nothing to delete, added the new record and returned success
C25_Witness ==
    \E c \in Clients :
        /\ prev[c].op = "UpdateFailed" /\ prev[c].kind = "Update"
        /\ cl[c].pc = "done" /\ cl[c].op = "Update" /\ Clean(cl[c])
        /\ Issued(cl[c], <<"delete", "add">>)
        /\ cl[c].log[1].tag \in NotExistTags /\ cl[c].log[2].tag = "ok"
        /\ cl[c].err = NilErr
        /\ srv.held /\ srv.data = Denoted(cl[c].new)

\* two callers create a record for the same key, absent so far, at the same
\* time: each runs one Create
InitRace ==
    /\ Init
    /\ ~srv.held

StartRace(c) ==
    /\ cl[c].pc = "idle"
    /\ \E new \in Values(typ) : cl' = [ cl EXCEPT ![c] = Begin("Create", << >>, new) ]
    /\ UNCHANGED << typ, dot, absent, srv, prev, res, call >>

NextRace ==
    \/ \E c \in Clients : StartRace(c)
    \/ \E c \in Clients : Add(c)
    \/ \E c \in Clients : Requery(c)

SpecRace == InitRace /\ [][NextRace]_vars

\* both Creates have returned and no invocation of either failed in
\* transport or was garbled
BothCreated ==
    /\ \A c \in Clients : cl[c].pc = "done" /\ cl[c].op = "Create"
    /\ \A c \in Clients : \A i \in 1..Len(cl[c].log) : cl[c].log[i].tag \notin FaultTags

\* C26: of two Creates of one key at the same time, in every interleaving of
\* their add and re-query steps: when both ask for the same value both return
\* success and the key holds that one record; when they ask for canonically
\* different values exactly one returns success, the other an error, and the
\* key holds the record of the one that succeeded.
C26_ConcurrentCreate ==
    BothCreated
    => ( /\ cl[1].new = cl[2].new
              => ( /\ cl[1].err = NilErr /\ cl[2].err = NilErr
                   /\ srv.held /\ srv.data = Denoted(cl[1].new) )
         /\ ~CanonEquivalent(typ, cl[1].new, cl[2].new)
              => ( /\ \E c \in Clients : cl[c].err = NilErr
                   /\ \E c \in Clients : cl[c].err # NilErr
                   /\ \A c \in Clients :
                        cl[c].err = NilErr => ( srv.held /\ srv.data = Denoted(cl[c].new) ) ) )

\* the outcome of the invocation the handler has just issued
ResLastTag == res'.log[Len(res'.log)].tag

\* the query of the resource's delete comes first: an absent key ends the
\* delete with success and the ID cleared, a failure ends it with the error
\* and the ID kept, in both cases with no delete issued; a record leads to the
\* delete of the value the query returned
DeleteQueriesFirst ==
    ( res.op = "Delete" /\ res.pc = "query" /\ res' # res )
    => ( /\ res.log = << >>
         /\ res.id # << >>
         /\ ResLastTag \in NotExistTags
              => ( res'.pc = "done" /\ res'.err = NilErr /\ res'.id = << >> )
         /\ ResLastTag \in FaultTags
              => ( /\ res'.pc = "done"
                   /\ res'.err # NilErr
                   /\ res'.err.wrap = "failed to query record for deletion"
                   /\ res'.id = res.id )
         /\ ResLastTag = "ok"
              => ( res'.pc = "delete" /\ res'.old = StoredValue ) )

\* the delete is issued for the value the query returned; when the record
\* has been removed since the query, the delete of the resource succeeds and
\* clears the ID
DeleteAfterRemoval ==
    ( res.op = "Delete" /\ res.pc = "delete" /\ res' # res )
    => ( /\ res'.pc = "done"
         /\ res'.log[2].args[7] = DeleteValue(res.qtype, res.old)
         /\ ( ~srv.held /\ ResLastTag # "logon" )
              => ( res'.err = NilErr /\ res'.id = << >> ) )

\* C27: the resource's delete queries the key first: absent, it issues no
\* delete, clears the ID and succeeds; on a query failure it returns the
\* error, keeps the ID and issues no delete; otherwise it deletes the value the
\* query returned, and succeeds and clears the ID also when another client
\* removed the record between the query and the delete.
C27_ResourceDelete ==
    [][ DeleteQueriesFirst /\ DeleteAfterRemoval ]_vars

\* the invocation client c has just issued
LastIssued(c) == cl'[c].log[Len(cl'[c].log)]

\* C28: no canonical form is sent to the tool: the value argument of an add
\* is the Value the caller supplied, byte for byte, and so is the value
\* argument of a delete unless it is a TXT value containing a comma; Query
\* issues the query subcommand only, and no query changes what the server
\* holds; a Create or a Delete that returns an error has left the server's
\* record as it was.
C28_NothingCanonicalSent ==
    [][ \A c \in Clients :
          cl'[c] # cl[c] /\ cl[c].pc \in {"add", "requery", "query", "delete"}
          => ( /\ cl[c].pc = "add"
                    => ( LastIssued(c).cmd = "add" /\ LastIssued(c).value = cl[c].new )
               /\ cl[c].pc = "delete"
                    => ( /\ LastIssued(c).cmd = "delete"
                         /\ ~(typ = TypeTXT /\ Contains(cl[c].old, <<",">>))
                              => LastIssued(c).value = cl[c].old )
               /\ cl[c].pc \in {"requery", "query"}
                    => ( LastIssued(c).cmd = "query" /\ srv' = srv )
               /\ cl[c].op = "Query" => Issued(cl'[c], <<"query">>)
               /\ ( /\ cl[c].op \in {"Create", "Delete"}
                    /\ \/ cl'[c].pc = "done" /\ cl'[c].err # NilErr
                       \/ cl'[c].pc = "requery" )
                    => srv' = srv ) ]_vars

\* C28 witness: a Create of an AAAA record sent the short form it was given,
\* which the server holds in its expanded form
C28_Witness ==
    \E c \in Clients :
        /\ cl[c].pc = "done" /\ cl[c].op = "Create" /\ cl[c].err = NilErr
        /\ typ = TypeAAAA
        /\ Issued(cl[c], <<"add">>)
        /\ cl[c].log[1].value = <<":",":","1">>
        /\ srv.held /\ srv.data # << <<":",":","1">> >>

\* the plan shows no change of the value: the value in the state and the
\* configured one are the same, or suppressValueDiff takes them for the same
NoValueDiff == res.value = res.cfgValue \/ suppressValueDiff(res.cfgType, res.value, res.cfgValue)

\* C29: after the resource's create and the read that ends it, the value
\* saved in the state, as the query returned it, shows no difference from the
\* configured value, so that the next plan, the configuration and the server
\* unchanged, asks for no update.
C29_NoPerpetualDrift ==
    ( /\ res.op = "Create" /\ res.pc = "done" /\ res.err = NilErr
      /\ res.id # << >> )
    => NoValueDiff

=============================================================================
